---- MODULE Spec2Model ----
(***************************************************************************)
(* Model of the configuration lifecycle of cohere-scripts:                 *)
(*   cdi_window.py  write_conf, cdi_gui.set_experiment and its helpers     *)
(*   common.py      get_config_maps                                        *)
(*   everything.py  run_all / main                                         *)
(*                                                                         *)
(* Python strings are tuples of one-character strings, so that strip(),    *)
(* endswith(), replace() and '+' are computed and not assumed.  A path is  *)
(* the tuple of its components (os.path.join appends a component).  None   *)
(* is the tuple <<"<None>">>, which no Python string of the model equals.  *)
(***************************************************************************)
EXTENDS FiniteSets, Integers, Sequences, TLC

VARIABLES
    fs,        \* file system: [dirs : set of paths, files : path -> lines]
    wc,        \* write_conf driver: the last call, its arguments and result
    wcCalls,   \* write_conf driver: number of calls made
    g_in,      \* get_config_maps: arguments and conv.get_version()
    g_disk,    \* get_config_maps: files of <experiment_dir>/conf, by name
    g_pc,      \* get_config_maps: position in the function
    g_main,    \* get_config_maps: main_config_map
    g_maps,    \* get_config_maps: maps
    g_converted, \* get_config_maps: converted
    g_beam_ver,  \* get_config_maps: beam_ver
    g_i,       \* get_config_maps: index of the loop over configs
    g_ret,     \* get_config_maps: the returned triple
    g_log,     \* get_config_maps: file reads, verifications, conversions
    r_in,      \* everything.py: command line arguments and os.sep
    r_pc,      \* everything.py: position in main / run_all
    r_k,       \* everything.py: index of the stage statement of run_all
    r_dir,     \* everything.py: experiment_dir of run_all
    r_log,     \* everything.py: calls, returns and raises of the stages
    u_w,       \* cdi_gui: texts of the main window's widgets
    u_f,       \* cdi_gui: the attributes of the cdi_gui object
    u_t,       \* cdi_gui.t: None, or the list of the tabs
    u_data,    \* DataTab: its widgets
    u_rec,     \* RecTab: its widgets
    u_last,    \* cdi_gui: the last handler run, how it ended, its messages
    u_edits,   \* cdi_gui: number of user inputs so far
    u_pc,      \* cdi_gui: position inside load_experiment, or "idle"
    u_load,    \* cdi_gui.load_experiment: load_dir and need_convert
    u_run,     \* the run in progress or the last one: the tabs still to run,
               \* the stage being launched, what each run_tab did
    u_conf,    \* RecTab: rec_ids, the rec_id combo box and old_conf_id
    p_feat,    \* Features.feature_dir: the active box and the line edits of
               \* every feature panel
    p_ops,     \* Features: number of user inputs to the panels so far
    p_prev     \* Features: the panels before the last user input

wcVars == <<fs, wc, wcCalls>>

gVars == <<g_in, g_disk, g_pc, g_main, g_maps, g_converted, g_beam_ver, g_i,
           g_ret, g_log>>

rVars == <<r_in, r_pc, r_k, r_dir, r_log>>

pVars == <<p_feat, p_ops, p_prev>>

uVars == <<u_w, u_f, u_t, u_data, u_rec, u_last, u_edits, u_pc, u_load,
           u_run, u_conf, p_feat, p_ops, p_prev>>

vars == <<fs, wc, wcCalls, g_in, g_disk, g_pc, g_main, g_maps, g_converted,
          g_beam_ver, g_i, g_ret, g_log, r_in, r_pc, r_k, r_dir, r_log,
          u_w, u_f, u_t, u_data, u_rec, u_last, u_edits, u_pc, u_load,
          u_run, u_conf, p_feat, p_ops, p_prev>>

-----------------------------------------------------------------------------
(* Bounds *)

MaxCalls == 2
MaxVer == 2
MaxReq == 2
MaxPath == 3
MaxEdits == 3
MaxPanelOps == 3

-----------------------------------------------------------------------------
(* Strings *)

None == <<"<None>">>

S_empty == <<>>
S_config == <<"c","o","n","f","i","g">>
S_config_prep == <<"c","o","n","f","i","g","_","p","r","e","p">>
S_config_data == <<"c","o","n","f","i","g","_","d","a","t","a">>
S_config_rec == <<"c","o","n","f","i","g","_","r","e","c">>
S_config_disp == <<"c","o","n","f","i","g","_","d","i","s","p">>
S_config_instr == <<"c","o","n","f","i","g","_","i","n","s","t","r">>
S_conf == <<"c","o","n","f">>
S_temp == <<"t","e","m","p">>
S_us == <<"_">>
S_eq == <<" ","="," ">>
S_r1_config_rec == <<"r","1">> \o S_us \o S_config_rec

\* str.endswith
EndsWith(s, suffix) ==
    /\ Len(s) >= Len(suffix)
    /\ SubSeq(s, Len(s) - Len(suffix) + 1, Len(s)) = suffix

-----------------------------------------------------------------------------
(* File system *)

\* os.path.join(dir, name)
Join(dir, name) == Append(dir, name)

Exists(f, p) == p \in f.dirs \/ p \in DOMAIN f.files
IsFile(f, p) == p \in DOMAIN f.files
IsDir(f, p) == p \in f.dirs

\* os.makedirs: the directory and every missing parent
Makedirs(f, dir) ==
    [f EXCEPT !.dirs = @ \cup {SubSeq(dir, 1, n) : n \in 1..Len(dir)}]

\* os.remove
Remove(f, p) ==
    [f EXCEPT !.files = [q \in (DOMAIN @) \ {p} |-> @[q]]]

\* open(p, 'a') followed by the writes: creates the file when absent
AppendLines(f, p, lines) ==
    LET old == IF p \in DOMAIN f.files THEN f.files[p] ELSE <<>>
    IN  [f EXCEPT !.files = [q \in (DOMAIN @) \cup {p} |->
                                IF q = p THEN old \o lines ELSE @[q]]]

\* shutil.copy(src, dst): dst is created or overwritten with the content of src
Copy(f, src, dst) ==
    [f EXCEPT !.files = [q \in (DOMAIN @) \cup {dst} |->
                            IF q = dst THEN @[src] ELSE @[q]]]

-----------------------------------------------------------------------------
(* write_conf *)

\* a write loop without the len(value) > 0 test
RECURSIVE ConfLines_all(_)
ConfLines_all(conf_map) ==
    IF conf_map = <<>> THEN <<>>
    ELSE <<Head(conf_map).key \o S_eq \o Head(conf_map).value>>
            \o ConfLines_all(Tail(conf_map))

\* the lines written for conf_map: key + ' = ' + value for each non-empty value
RECURSIVE ConfLines(_)
ConfLines(conf_map) ==
    IF conf_map = <<>> THEN <<>>
    ELSE LET e == Head(conf_map)
         IN  (IF Len(e.value) > 0 THEN <<e.key \o S_eq \o e.value>> ELSE <<>>)
                \o ConfLines(Tail(conf_map))

\* the if/elif chain that selects a stage verifier from the file name
HasVerifier(file) ==
    \/ file = S_config
    \/ file = S_config_prep
    \/ file = S_config_data
    \/ EndsWith(file, S_config_rec)
    \/ file = S_config_disp

\* generating the content straight into the configuration file
StagingFile_direct(dir, file) == Join(dir, file)

\* Where the generated content is put before it is verified
StagingFile(dir, file) == Join(dir, S_temp)

\* the state of one path: absent, or a file with its lines
Entry(f, p) == IF p \in DOMAIN f.files THEN <<f.files[p]>> ELSE <<>>

\* write_conf(conf_map, dir, file); accept is the verdict of the verifier
WriteConf(f, conf_map, dir, file, accept) ==
    LET f1 == IF ~Exists(f, dir) THEN Makedirs(f, dir) ELSE f
        conf_file == Join(dir, file)
        temp_file == StagingFile(dir, file)
        f2 == IF IsFile(f1, temp_file) THEN Remove(f1, temp_file) ELSE f1
        f3 == AppendLines(f2, temp_file, ConfLines(conf_map))
    IN  IF HasVerifier(file) /\ ~accept
        THEN [fs |-> Remove(f3, temp_file), ret |-> FALSE]
        ELSE [fs |-> Remove(Copy(f3, temp_file, conf_file), temp_file),
              ret |-> TRUE]

-----------------------------------------------------------------------------
(* Driver of write_conf: calls with arguments drawn from small sets *)

WcDir == <<<<"d">>, S_conf>>

WcFiles == {S_config, S_config_prep, S_config_data, S_config_rec,
            S_r1_config_rec, S_config_disp, S_config_instr}

E(k, v) == [key |-> k, value |-> v]

WcMaps == { <<>>,
            <<E(<<"a">>, <<"1">>)>>,
            <<E(<<"a">>, <<>>)>>,
            <<E(<<"a">>, <<"1">>), E(<<"b">>, <<>>)>>,
            <<E(<<"b">>, <<"2">>), E(<<"a">>, <<"1">>)>> }

StaleLines == <<<<"z">> \o S_eq \o <<"9">>>>

EmptyFiles == [q \in {} |-> <<>>]

WcNoCall == [called |-> FALSE, conf_map |-> <<>>, file |-> S_empty,
             accept |-> FALSE, pre |-> [dirs |-> {}, files |-> EmptyFiles],
             ret |-> FALSE]

WcEmptyFs == [dirs |-> {}, files |-> EmptyFiles]

\* a configuration directory holding an earlier version of every file
WcOldFs ==
    [dirs |-> Makedirs(WcEmptyFs, WcDir).dirs,
     files |-> [q \in {Join(WcDir, n) : n \in WcFiles} |-> StaleLines]]

\* the directory may exist or not, may hold earlier versions of the files, and
\* a run that was interrupted may have left a temp file behind
WcStart ==
    /\ fs \in { WcEmptyFs,
                Makedirs(WcEmptyFs, WcDir),
                AppendLines(Makedirs(WcEmptyFs, WcDir), Join(WcDir, S_temp),
                            StaleLines),
                WcOldFs,
                AppendLines(WcOldFs, Join(WcDir, S_temp), StaleLines) }
    /\ wc = WcNoCall
    /\ wcCalls = 0

WcIdle ==
    /\ wc = WcNoCall
    /\ wcCalls = 0

WcCall ==
    /\ wcCalls < MaxCalls
    /\ \E conf_map \in WcMaps, file \in WcFiles, accept \in BOOLEAN :
          LET r == WriteConf(fs, conf_map, WcDir, file, accept)
          IN  /\ fs' = r.fs
              /\ wc' = [called |-> TRUE, conf_map |-> conf_map, file |-> file,
                        accept |-> accept, pre |-> fs, ret |-> r.ret]
    /\ wcCalls' = wcCalls + 1
    /\ UNCHANGED <<gVars, rVars, uVars>>

WcNext == WcCall


-----------------------------------------------------------------------------
(* get_config_maps (common.py) *)

\* A configuration file is described by what ut.read_config returns for it:
\*   src       the file it was read from
\*   ok        whether its stage verifier accepts the map
\*   ver       converter_ver, or AbsentVer when the key is missing
\*   beamline  beamline, or None when the key is missing
\*   gen       1 once conv.convert has rewritten the file
AbsentVer == -1
\* conv.get_version() returning None
NoneVer == -1

S_r1 == <<"r","1">>

GNames == {S_config_data, S_config_rec, S_config_prep, S_config_instr}

\* verifier_map: the names verified by ut, and those verified by beam_ver
UtVerified == {S_config_data, S_config_rec}
BeamVerified == {S_config_instr, S_config_prep, S_config_disp}

EmptyMaps == [q \in {} |-> 0]

NoMap == [src |-> None, ok |-> FALSE, ver |-> AbsentVer, beamline |-> None,
          gen |-> 0]

NoRet == [msg |-> "<none>", maps |-> EmptyMaps, converted |-> "None"]

PyBool(b) == IF b THEN "True" ELSE "False"

\* ut.read_config(conf_dir/name)
ReadConfig(disk, name) == disk[name]

Event(e, name, ok) == [ev |-> e, file |-> name, ok |-> ok]

\* the first return: no main config
NoMainReturn_false(maps) ==
    [msg |-> "no main config", maps |-> maps, converted |-> "False"]

NoMainReturn(maps) ==
    [msg |-> "no main config", maps |-> maps, converted |-> "None"]

\* a verification message is returned only when no_verify is off
FailReturns_always(ok, no_verify) == ~ok

FailReturns(ok, no_verify) == ~ok /\ ~no_verify

\* the version test with the comparison turned around
NeedConvert_lt(map, cur) ==
    \/ map.ver = AbsentVer
    \/ cur = NoneVer
    \/ cur < map.ver

\* the version test that also converts a file already at the current version
NeedConvert_ge(map, cur) ==
    \/ map.ver = AbsentVer
    \/ cur = NoneVer
    \/ cur >= map.ver

\* 'converter_ver' not in main_config_map or conv.get_version() is None
\* or conv.get_version() > main_config_map['converter_ver']
NeedConvert(map, cur) ==
    \/ map.ver = AbsentVer
    \/ cur = NoneVer
    \/ cur > map.ver

\* the rec_id suffix applied to every requested config
ConfFileName_all(conf, rec_id) ==
    IF rec_id # None THEN conf \o S_us \o rec_id ELSE conf

\* the file a requested config is read from
ConfFileName(conf, rec_id) ==
    IF rec_id # None /\ conf = S_config_rec
    THEN conf \o S_us \o rec_id
    ELSE conf

\* conv.convert(conf_dir): every file of the directory is rewritten in the
\* latest schema.  Whether a rewritten file passes its verifier is open: the
\* main config may pass or fail, and the stage files keep their verdicts, all
\* pass, or all fail.
Convert(disk, cur) ==
    { [n \in DOMAIN disk |->
          [disk[n] EXCEPT !.gen = 1,
                          !.ok = IF n = S_config THEN mainOk
                                 ELSE IF stage = "keep" THEN @
                                 ELSE stage = "pass",
                          !.ver = IF n = S_config /\ cur # NoneVer
                                  THEN cur ELSE @]] :
      mainOk \in BOOLEAN, stage \in {"keep", "pass", "fail"} }

GReturn(r) ==
    /\ g_ret' = r
    /\ g_pc' = "done"

\* lines 27-34
GStart ==
    /\ g_pc = "start"
    /\ IF S_config \notin DOMAIN g_disk
       THEN /\ GReturn(NoMainReturn(g_maps))
            /\ UNCHANGED <<g_main, g_log>>
       ELSE /\ g_main' = ReadConfig(g_disk, S_config)
            /\ g_log' = Append(g_log, Event("read", S_config, TRUE))
            /\ g_pc' = "verify_main"
            /\ UNCHANGED g_ret
    /\ UNCHANGED <<g_in, g_disk, g_maps, g_converted, g_beam_ver, g_i>>
    /\ UNCHANGED <<wcVars, rVars, uVars>>

\* lines 36-41
GVerifyMain ==
    /\ g_pc = "verify_main"
    /\ g_log' = Append(g_log, Event("verify", S_config, g_main.ok))
    /\ IF FailReturns(g_main.ok, g_in.no_verify)
       THEN GReturn([msg |-> "verifier message", maps |-> g_maps,
                     converted |-> "None"])
       ELSE /\ g_pc' = "convert"
            /\ UNCHANGED g_ret
    /\ g_converted' = FALSE
    /\ UNCHANGED <<g_in, g_disk, g_main, g_maps, g_beam_ver, g_i>>
    /\ UNCHANGED <<wcVars, rVars, uVars>>

\* lines 43-49
GConvert ==
    /\ g_pc = "convert"
    /\ IF NeedConvert(g_main, g_in.cur)
       THEN \E d \in Convert(g_disk, g_in.cur) :
               /\ g_disk' = d
               /\ g_main' = ReadConfig(d, S_config)
               /\ g_log' = g_log \o <<Event("convert", S_conf, TRUE),
                                      Event("read", S_config, TRUE)>>
               /\ g_converted' = TRUE
               /\ g_maps' = (S_config :> ReadConfig(d, S_config))
       ELSE /\ g_maps' = (S_config :> g_main)
            /\ UNCHANGED <<g_disk, g_main, g_log, g_converted>>
    /\ g_pc' = "instr"
    /\ UNCHANGED <<g_in, g_beam_ver, g_i, g_ret>>
    /\ UNCHANGED <<wcVars, rVars, uVars>>

\* lines 51-62; importlib.import_module either finds the beamline's verifier
\* or raises
GInstr ==
    /\ g_pc = "instr"
    /\ IF \E k \in 1..Len(g_in.configs) : g_in.configs[k] = S_config_instr
       THEN IF g_main.beamline = None
            THEN /\ GReturn([msg |-> "cannot import beamlines.None module.",
                             maps |-> g_maps, converted |-> "None"])
                 /\ UNCHANGED g_beam_ver
            ELSE \E found \in BOOLEAN :
                    /\ g_pc' = IF found THEN "loop" ELSE "raised"
                    /\ g_beam_ver' = IF found THEN "module" ELSE g_beam_ver
                    /\ UNCHANGED g_ret
       ELSE /\ g_beam_ver' = "None"
            /\ g_pc' = "loop"
            /\ UNCHANGED g_ret
    /\ g_i' = 1
    /\ UNCHANGED <<g_in, g_disk, g_main, g_maps, g_converted, g_log>>
    /\ UNCHANGED <<wcVars, rVars, uVars>>

\* lines 65-81: one iteration of the loop over configs
GLoop ==
    /\ g_pc = "loop"
    /\ g_i <= Len(g_in.configs)
    /\ LET conf == g_in.configs[g_i]
           conf_file == ConfFileName(conf, g_in.rec_id)
       IN  IF conf_file \notin DOMAIN g_disk
           THEN /\ g_i' = g_i + 1
                /\ UNCHANGED <<g_pc, g_maps, g_ret, g_log>>
           ELSE LET config_map == ReadConfig(g_disk, conf_file)
                    read == Event("read", conf_file, TRUE)
                IN  IF conf \in BeamVerified /\ g_beam_ver = "None"
                    THEN \* None has no verify attribute
                         /\ g_pc' = "raised"
                         /\ g_log' = Append(g_log, read)
                         /\ UNCHANGED <<g_i, g_maps, g_ret>>
                    ELSE /\ g_log' = g_log \o
                               <<read, Event("verify", conf_file, config_map.ok)>>
                         /\ IF FailReturns(config_map.ok, g_in.no_verify)
                            THEN /\ GReturn([msg |-> "verifier message",
                                             maps |-> g_maps,
                                             converted |-> "None"])
                                 /\ UNCHANGED <<g_i, g_maps>>
                            ELSE /\ g_maps' = [q \in DOMAIN g_maps \cup {conf} |->
                                                 IF q = conf THEN config_map
                                                 ELSE g_maps[q]]
                                 /\ g_i' = g_i + 1
                                 /\ UNCHANGED <<g_pc, g_ret>>
    /\ UNCHANGED <<g_in, g_disk, g_main, g_converted, g_beam_ver>>
    /\ UNCHANGED <<wcVars, rVars, uVars>>

\* line 83
GDone ==
    /\ g_pc = "loop"
    /\ g_i > Len(g_in.configs)
    /\ GReturn([msg |-> "", maps |-> g_maps, converted |-> PyBool(g_converted)])
    /\ UNCHANGED <<g_in, g_disk, g_main, g_maps, g_converted, g_beam_ver, g_i,
                   g_log>>
    /\ UNCHANGED <<wcVars, rVars, uVars>>

\* the requests: lists of distinct config names
GRequests ==
    { c \in UNION { [1..n -> GNames] : n \in 0..MaxReq } :
        \A i, j \in 1..Len(c) : i # j => c[i] # c[j] }

\* the files a request can touch: the requested names and the alternate
\* reconstruction configuration
GCandidates(configs, rec_id) ==
    {S_config} \cup {configs[k] : k \in 1..Len(configs)}
        \cup (IF rec_id # None
                 /\ \E k \in 1..Len(configs) : configs[k] = S_config_rec
              THEN {S_config_rec \o S_us \o rec_id} ELSE {})

GStartState ==
    /\ \E configs \in GRequests, rec_id \in {None, S_r1}, nv \in BOOLEAN,
          cur \in {NoneVer} \cup (1..MaxVer) :
          \E present \in SUBSET GCandidates(configs, rec_id) :
             \E okf \in [present -> BOOLEAN],
                ver \in IF S_config \in present
                        THEN {AbsentVer} \cup (1..MaxVer) ELSE {AbsentVer},
                beamline \in IF S_config \in present
                                /\ S_config_instr \in GCandidates(configs, rec_id)
                             THEN {None, <<"b">>} ELSE {None} :
                /\ g_disk = [n \in present |->
                               [src |-> n, ok |-> okf[n],
                                ver |-> IF n = S_config THEN ver ELSE AbsentVer,
                                beamline |-> IF n = S_config THEN beamline
                                             ELSE None,
                                gen |-> 0]]
                /\ g_in = [configs |-> configs, rec_id |-> rec_id,
                           no_verify |-> nv, cur |-> cur,
                           main0 |-> IF S_config \in present
                                     THEN g_disk[S_config] ELSE NoMap,
                           disk0 |-> g_disk]
    /\ g_pc = "start"
    /\ g_main = NoMap
    /\ g_maps = EmptyMaps
    /\ g_converted = FALSE
    /\ g_beam_ver = "None"
    /\ g_i = 0
    /\ g_ret = NoRet
    /\ g_log = <<>>

GIdle ==
    /\ g_in = [configs |-> <<>>, rec_id |-> None, no_verify |-> FALSE,
               cur |-> NoneVer, main0 |-> NoMap, disk0 |-> EmptyMaps]
    /\ g_disk = EmptyMaps
    /\ g_pc = "idle"
    /\ g_main = NoMap
    /\ g_maps = EmptyMaps
    /\ g_converted = FALSE
    /\ g_beam_ver = "None"
    /\ g_i = 0
    /\ g_ret = NoRet
    /\ g_log = <<>>

GNext == GStart \/ GVerifyMain \/ GConvert \/ GInstr \/ GLoop \/ GDone

-----------------------------------------------------------------------------
(* everything.py: main and run_all *)

\* str.replace(old, new) for a one-character old
RECURSIVE Replace(_, _, _)
Replace(s, old, new) ==
    IF s = <<>> THEN <<>>
    ELSE (IF Head(s) = old THEN new ELSE <<Head(s)>>)
            \o Replace(Tail(s), old, new)

\* the stage statements with formatting and reconstruction exchanged
Stages_swapped ==
    <<"prep.handle_prep", "rec.manage_reconstruction", "dt.format_data",
      "dsp.handle_visualization">>

\* the four stage statements of run_all, in program order
Stages ==
    <<"prep.handle_prep", "dt.format_data", "rec.manage_reconstruction",
      "dsp.handle_visualization">>

PathChars == {"a", "/", "\\"}

RPaths == UNION { [1..n -> PathChars] : n \in 0..MaxPath }

\* main, lines 50-59: the parsed arguments become run_all's arguments
RMain ==
    /\ r_pc = "main"
    /\ r_dir' = r_in.experiment_dir
    /\ r_pc' = "run_all"
    /\ UNCHANGED <<r_in, r_k, r_log>>
    /\ UNCHANGED <<wcVars, gVars, uVars>>

\* run_all, line 42
RReplace ==
    /\ r_pc = "run_all"
    /\ r_dir' = Replace(r_dir, r_in.sep, <<"/">>)
    /\ r_k' = 1
    /\ r_pc' = "call"
    /\ UNCHANGED <<r_in, r_log>>
    /\ UNCHANGED <<wcVars, gVars, uVars>>

\* lines 43-46: the statement at r_k calls its stage with (experiment_dir,
\* **kwargs)
RCall ==
    /\ r_pc = "call"
    /\ r_log' = Append(r_log, [ev |-> "call", stage |-> Stages[r_k],
                               dir |-> r_dir,
                               rec_id |-> r_in.rec_id,
                               no_verify |-> r_in.no_verify,
                               debug |-> r_in.debug])
    /\ r_pc' = "running"
    /\ UNCHANGED <<r_in, r_k, r_dir>>
    /\ UNCHANGED <<wcVars, gVars, uVars>>

\* the stage returns: control moves to the next statement, or run_all ends
RStageReturns ==
    /\ r_pc = "running"
    /\ r_log' = Append(r_log, [ev |-> "return", stage |-> Stages[r_k],
                               dir |-> r_dir,
                               rec_id |-> r_in.rec_id,
                               no_verify |-> r_in.no_verify,
                               debug |-> r_in.debug])
    /\ IF r_k < Len(Stages)
       THEN r_k' = r_k + 1 /\ r_pc' = "call"
       ELSE r_k' = r_k /\ r_pc' = "done"
    /\ UNCHANGED <<r_in, r_dir>>
    /\ UNCHANGED <<wcVars, gVars, uVars>>

\* the stage raises: run_all has no handler, the exception leaves it
RStageRaises ==
    /\ r_pc = "running"
    /\ r_log' = Append(r_log, [ev |-> "raise", stage |-> Stages[r_k],
                               dir |-> r_dir,
                               rec_id |-> r_in.rec_id,
                               no_verify |-> r_in.no_verify,
                               debug |-> r_in.debug])
    /\ r_pc' = "raised"
    /\ UNCHANGED <<r_in, r_k, r_dir>>
    /\ UNCHANGED <<wcVars, gVars, uVars>>

RStartState ==
    /\ \E d \in RPaths, sep \in {"/", "\\"}, rec_id \in {None, S_r1},
          nv \in BOOLEAN, dbg \in BOOLEAN :
          r_in = [experiment_dir |-> d, sep |-> sep, rec_id |-> rec_id,
                  no_verify |-> nv, debug |-> dbg]
    /\ r_pc = "main"
    /\ r_k = 0
    /\ r_dir = <<>>
    /\ r_log = <<>>

RIdle ==
    /\ r_in = [experiment_dir |-> <<>>, sep |-> "/", rec_id |-> None,
               no_verify |-> FALSE, debug |-> FALSE]
    /\ r_pc = "idle"
    /\ r_k = 0
    /\ r_dir = <<>>
    /\ r_log = <<>>

RNext == RMain \/ RReplace \/ RCall \/ RStageReturns \/ RStageRaises

-----------------------------------------------------------------------------
(* cdi_window.py: the main window (cdi_gui) and its tabs *)

\* None where a path is expected, and an attribute that was never assigned
NoPath == << <<"<None>">> >>
Unset == <<"<unset>">>
NoTabs == <<"<None>">>

S_working_dir == <<"w","o","r","k","i","n","g","_","d","i","r">>
S_experiment_id == <<"e","x","p","e","r","i","m","e","n","t","_","i","d">>
S_scan == <<"s","c","a","n">>
S_beamline == <<"b","e","a","m","l","i","n","e">>
S_specfile == <<"s","p","e","c","f","i","l","e">>
S_converter_ver == <<"c","o","n","v","e","r","t","e","r","_","v","e","r">>
S_alien_alg == <<"a","l","i","e","n","_","a","l","g">>
S_block_aliens == <<"b","l","o","c","k","_","a","l","i","e","n","s">>
S_aliens == <<"a","l","i","e","n","s">>
S_intensity_threshold == <<"i","n","t","e","n","s","i","t","y","_","t","h","r","e","s","h","o","l","d">>
S_binning == <<"b","i","n","n","i","n","g">>
S_reconstructions == <<"r","e","c","o","n","s","t","r","u","c","t","i","o","n","s">>
S_device == <<"d","e","v","i","c","e">>
S_None == <<"N","o","n","e">>
S_quote == <<"\"">>

\* str.strip(): leading and trailing blanks removed
RECURSIVE LStrip(_)
LStrip(s) == IF s # <<>> /\ Head(s) = " " THEN LStrip(Tail(s)) ELSE s

RECURSIVE RStrip(_)
RStrip(s) ==
    IF s # <<>> /\ s[Len(s)] = " " THEN RStrip(SubSeq(s, 1, Len(s) - 1)) ELSE s

Strip(s) == RStrip(LStrip(s))

\* str.replace(' ', '')
RemoveBlanks(s) == SelectSeq(s, LAMBDA c : c # " ")

\* '"' + s + '"'
Quote(s) == S_quote \o s \o S_quote

\* str(path): the components behind '/' each, and str(None)
RECURSIVE PathStr(_)
PathStr(p) ==
    IF p = NoPath THEN S_None
    ELSE IF p = <<>> THEN <<>>
    ELSE <<"/">> \o Head(p) \o PathStr(Tail(p))


Digits == <<"0","1","2","3","4","5","6","7","8","9">>

\* conv.get_version() of the installed converter
ConvVersion == 2

\* str(conv.get_version())
ConvVersionStr == <<Digits[ConvVersion + 1]>>

\* the directories of the machine: one writable, one not
W1 == << <<"w">> >>
W2 == << <<"r">> >>
ReadOnlyDirs == {W2}
\* the file a spec-file dialog can return
SpecFile == <<"/","s">>
\* the beamlines whose beam_tabs module can be imported
InstalledBeamlines == {<<"b">>}

\* os.access(dir, os.W_OK)
Writable(dir) == dir \notin ReadOnlyDirs

\* what the user can type or pick
IdTexts == {<<>>, <<" ">>, <<" ","a"," ">>, <<"b">>}
ScanTexts == {<<>>, <<"1">>, <<"1"," ","2">>}
BeamlineTexts == {<<>>, <<"b">>, <<"x">>}
FieldTexts == {<<>>, <<"2">>}

\* cdi_gui.__init__: the widgets are empty, the attributes None; id and scan
\* are not assigned before set_experiment
InitWidgets == [wd |-> <<>>, id |-> <<>>, scan |-> <<>>, beamline |-> <<>>,
                spec |-> <<>>]
InitFields == [beamline |-> None, exp_id |-> None, experiment_dir |-> NoPath,
               working_dir |-> NoPath, specfile |-> None, id |-> Unset,
               scan |-> Unset]
\* DataTab.init and RecTab.init: first choice selected, line edits empty
InitData == [alien_alg |-> 0, aliens |-> <<>>, intensity_threshold |-> <<>>,
             binning |-> <<>>]
InitRec == [reconstructions |-> <<>>, device |-> <<>>]

NoLoad == [dir |-> NoPath, need_convert |-> FALSE]

\* no run_tab has been called yet
NoRun == [op |-> "none", checks |-> "not called", queue |-> <<>>,
          launching |-> "none", log |-> <<>>]

\* RecTab.init: rec_ids is not assigned yet, the rec_id combo box holds
\* 'main' alone and old_conf_id is ''; last_toggle remembers what the last
\* toggle_conf started from
S_main == <<"m","a","i","n">>
NoToggle == [from |-> None, to |-> None, shown |-> <<>>, to_before |-> <<>>]
InitConf == [rec_ids |-> <<>>, has_rec_ids |-> FALSE, items |-> <<S_main>>,
             current |-> 1, old_conf_id |-> <<>>, last_toggle |-> NoToggle]

Last(op, result, msgs) == [op |-> op, result |-> result, msgs |-> msgs]

\* cdi_gui.is_exp_exists
IsExpExists(w, f, fsys) ==
    IF f.exp_id = None THEN FALSE
    ELSE IF f.working_dir = NoPath THEN FALSE
    ELSE LET id == Strip(w.id)
             scan == RemoveBlanks(w.scan)
             exp_id == IF scan # <<>> THEN id \o S_us \o scan ELSE id
         IN  Exists(fsys, Join(f.working_dir, exp_id))

\* cdi_gui.is_exp_set
IsExpSet(w, f) ==
    IF f.exp_id = None THEN FALSE
    ELSE IF f.working_dir = NoPath THEN FALSE
    ELSE IF f.id # Strip(w.id) THEN FALSE
    ELSE TRUE

\* cdi_gui.assure_experiment_dir
AssureExperimentDir(fsys, experiment_dir) ==
    LET f1 == IF ~Exists(fsys, experiment_dir)
              THEN Makedirs(fsys, experiment_dir) ELSE fsys
        experiment_conf_dir == Join(experiment_dir, S_conf)
    IN  IF ~Exists(f1, experiment_conf_dir)
        THEN Makedirs(f1, experiment_conf_dir) ELSE f1

MainConfMap_nover(f) ==
    <<E(S_working_dir, Quote(PathStr(f.working_dir))),
      E(S_experiment_id, Quote(f.id))>>
    \o (IF f.scan # None THEN <<E(S_scan, Quote(f.scan))>> ELSE <<>>)
    \o (IF f.beamline # None THEN <<E(S_beamline, Quote(f.beamline))>> ELSE <<>>)
    \o (IF f.specfile # None THEN <<E(S_specfile, Quote(f.specfile))>> ELSE <<>>)

\* cdi_gui.save_main: the conf_map it hands to write_conf
MainConfMap(f) ==
    <<E(S_working_dir, Quote(PathStr(f.working_dir))),
      E(S_experiment_id, Quote(f.id))>>
    \o (IF f.scan # None THEN <<E(S_scan, Quote(f.scan))>> ELSE <<>>)
    \o (IF f.beamline # None THEN <<E(S_beamline, Quote(f.beamline))>> ELSE <<>>)
    \o (IF f.specfile # None THEN <<E(S_specfile, Quote(f.specfile))>> ELSE <<>>)
    \o <<E(S_converter_ver, ConvVersionStr)>>

\* cdi_gui.save_main
SaveMain(fsys, f, accept) ==
    WriteConf(fsys, MainConfMap(f), Join(f.experiment_dir, S_conf), S_config,
              accept).fs

\* DataTab.get_data_config, for the widgets of the model (the alien file,
\* AutoAlien1, center_shift and adjust_dimensions widgets are left out)
GetDataConfig(d) ==
    (IF d.alien_alg = 1
     THEN <<E(S_alien_alg, Quote(S_block_aliens))>>
            \o (IF Len(d.aliens) > 0 THEN <<E(S_aliens, d.aliens)>> ELSE <<>>)
     ELSE <<>>)
    \o (IF Len(d.intensity_threshold) > 0
        THEN <<E(S_intensity_threshold, d.intensity_threshold)>> ELSE <<>>)
    \o (IF Len(d.binning) > 0 THEN <<E(S_binning, d.binning)>> ELSE <<>>)

\* RecTab.get_rec_config, for the widgets of the model
GetRecConfig(r) ==
    (IF Len(r.reconstructions) > 0
     THEN <<E(S_reconstructions, r.reconstructions)>> ELSE <<>>)
    \o (IF Len(r.device) > 0 THEN <<E(S_device, r.device)>> ELSE <<>>)

\* DataTab.save_conf
DataSaveConf(fsys, f, d, accept) ==
    IF Len(GetDataConfig(d)) > 0
    THEN WriteConf(fsys, GetDataConfig(d), Join(f.experiment_dir, S_conf),
                   S_config_data, accept).fs
    ELSE fsys

\* RecTab.save_conf
RecSaveConf(fsys, f, r, accept) ==
    IF Len(GetRecConfig(r)) > 0
    THEN WriteConf(fsys, GetRecConfig(r), Join(f.experiment_dir, S_conf),
                   S_config_rec, accept).fs
    ELSE fsys

\* save_conf of the beamline's PrepTab and DispTab, whose widgets are not part
\* of the model: nothing to save
BeamSaveConf(fsys, f) == fsys

\* Tabs.save_conf: save_conf of every tab, in the order of Tabs.tabs
RECURSIVE TabsSaveConf(_, _, _, _, _, _)
TabsSaveConf(tabs, fsys, f, d, r, acc) ==
    IF tabs = <<>> THEN fsys
    ELSE LET tab == Head(tabs)
             f1 == IF tab = "data" THEN DataSaveConf(fsys, f, d, acc.data)
                   ELSE IF tab = "rec" THEN RecSaveConf(fsys, f, r, acc.rec)
                   ELSE BeamSaveConf(fsys, f)
         IN  TabsSaveConf(Tail(tabs), f1, f, d, r, acc)

\* Tabs.__init__ inside the try of its callers: the list of tabs, or None when
\* the import of the beamline's beam_tabs raised
NewTabs(beamline) ==
    IF Len(beamline) > 0
    THEN IF beamline \in InstalledBeamlines
         THEN <<"prep", "data", "rec", "disp">>
         ELSE NoTabs
    ELSE <<"data", "rec">>

\* a writability test that lets every existing directory through
WorkingDirProblem_nowrite(fsys, working_dir) ==
    IF Len(working_dir) = 0 THEN "not defined"
    ELSE IF ~IsDir(fsys, working_dir) THEN "does not exist"
    ELSE ""

\* set_experiment, lines 486-500: what is wrong with the working directory
WorkingDirProblem(fsys, working_dir) ==
    IF Len(working_dir) = 0 THEN "not defined"
    ELSE IF ~IsDir(fsys, working_dir) THEN "does not exist"
    ELSE IF ~Writable(working_dir) THEN "not writable"
    ELSE ""

\* an experiment id that ignores the scan
ExpId_noscan(id, scan_text) == id

\* set_experiment, lines 509-514
ExpId(id, scan_text) ==
    IF Len(scan_text) > 0 THEN id \o S_us \o scan_text ELSE id

\* set_experiment up to line 525, the part shared by both values of loaded
SetExperimentBody(w, f, fsys) ==
    LET working_dir == w.wd
        problem == WorkingDirProblem(fsys, working_dir)
        id == Strip(w.id)
    IN  IF problem = "not defined"
        THEN [ok |-> FALSE, w |-> w, f |-> f, fs |-> fsys, msgs |-> <<problem>>]
        ELSE IF problem # ""
        THEN [ok |-> FALSE, w |-> [w EXCEPT !.wd = <<>>], f |-> f, fs |-> fsys,
              msgs |-> <<problem>>]
        ELSE IF id = <<>>
        THEN [ok |-> FALSE, w |-> w, f |-> f, fs |-> fsys,
              msgs |-> <<"id must be entered">>]
        ELSE LET exp_id == ExpId(id, w.scan)
                 experiment_dir == Join(working_dir, exp_id)
                 f1 == [working_dir |-> working_dir,
                        id |-> id,
                        scan |-> IF Len(w.scan) > 0 THEN w.scan ELSE None,
                        exp_id |-> exp_id,
                        experiment_dir |-> experiment_dir,
                        beamline |-> IF Len(Strip(w.beamline)) > 0
                                     THEN Strip(w.beamline) ELSE None,
                        specfile |-> IF Len(w.spec) > 0
                                     THEN Strip(w.spec) ELSE None]
             IN  [ok |-> TRUE, w |-> w, f |-> f1,
                  fs |-> AssureExperimentDir(fsys, experiment_dir),
                  msgs |-> <<>>]

Accepts == [main : BOOLEAN, data : BOOLEAN, rec : BOOLEAN]

\* the 'set experiment' button: set_experiment(loaded=False)
SetExperiment ==
    /\ u_pc = "idle"
    /\ LET b == SetExperimentBody(u_w, u_f, fs)
       IN  IF ~b.ok
           THEN /\ u_w' = b.w
                /\ u_f' = b.f
                /\ fs' = b.fs
                /\ u_last' = Last("set_experiment", "rejected", b.msgs)
                /\ UNCHANGED u_t
           ELSE \E acc \in Accepts :
                  LET f1 == SaveMain(b.fs, b.f, acc.main)
                      t == IF u_t = NoTabs THEN NewTabs(u_w.beamline) ELSE u_t
                  IN  /\ u_w' = b.w
                      /\ u_f' = b.f
                      /\ u_t' = t
                      /\ IF t = NoTabs
                         THEN \* self.t.save_conf() on None
                              /\ fs' = f1
                              /\ u_last' = Last("set_experiment", "raised",
                                                <<"cannot import">>)
                         ELSE /\ fs' = TabsSaveConf(t, f1, b.f, u_data, u_rec,
                                                    acc)
                              /\ u_last' = Last("set_experiment", "returned",
                                                <<>>)
    /\ UNCHANGED <<u_data, u_rec, u_edits, u_pc, u_load>>
    /\ UNCHANGED <<pVars, wc, wcCalls, gVars, rVars, u_run, u_conf>>

\* the 'Working Directory' button: cdi_gui.set_working_dir; the dialog gives an
\* existing directory, or None when it is cancelled
SetWorkingDir ==
    /\ u_pc = "idle"
    /\ u_edits < MaxEdits
    /\ \E picked \in {W1, W2, NoPath} :
          /\ u_f' = [u_f EXCEPT !.working_dir = picked]
          /\ u_w' = [u_w EXCEPT !.wd = IF picked # NoPath THEN picked ELSE <<>>]
          /\ u_last' = Last("set_working_dir", "returned",
                            IF picked # NoPath THEN <<>>
                            ELSE <<"please select valid working directory">>)
    /\ u_edits' = u_edits + 1
    /\ UNCHANGED <<fs, u_t, u_data, u_rec, u_pc, u_load>>
    /\ UNCHANGED <<pVars, wc, wcCalls, gVars, rVars, u_run, u_conf>>

\* the 'spec file' button: cdi_gui.set_spec_file
SetSpecFile ==
    /\ u_pc = "idle"
    /\ u_edits < MaxEdits
    /\ \E picked \in {SpecFile, None}, accept \in BOOLEAN :
          LET f1 == [u_f EXCEPT !.specfile = picked]
              w1 == [u_w EXCEPT !.spec = IF picked # None THEN picked ELSE <<>>]
          IN  /\ u_f' = f1
              /\ u_w' = w1
              /\ fs' = IF IsExpExists(w1, f1, fs) \/ IsExpSet(w1, f1)
                       THEN SaveMain(fs, f1, accept) ELSE fs
    /\ u_last' = Last("set_spec_file", "returned", <<>>)
    /\ u_edits' = u_edits + 1
    /\ UNCHANGED <<u_t, u_data, u_rec, u_pc, u_load>>
    /\ UNCHANGED <<pVars, wc, wcCalls, gVars, rVars, u_run, u_conf>>

\* the user types into a line edit of the main window
EditMain ==
    /\ u_pc = "idle"
    /\ u_edits < MaxEdits
    /\ \/ \E v \in IdTexts : u_w' = [u_w EXCEPT !.id = v]
       \/ \E v \in ScanTexts : u_w' = [u_w EXCEPT !.scan = v]
       \/ \E v \in BeamlineTexts : u_w' = [u_w EXCEPT !.beamline = v]
    /\ u_w' # u_w
    /\ u_last' = Last("edit", "returned", <<>>)
    /\ u_edits' = u_edits + 1
    /\ UNCHANGED <<fs, u_f, u_t, u_data, u_rec, u_pc, u_load>>
    /\ UNCHANGED <<pVars, wc, wcCalls, gVars, rVars, u_run, u_conf>>

\* the user changes a widget of the Data or the Reconstruction tab
EditTab ==
    /\ u_pc = "idle"
    /\ u_edits < MaxEdits
    /\ u_t # NoTabs
    /\ \/ /\ \E v \in FieldTexts :
               \/ u_data' = [u_data EXCEPT !.intensity_threshold = v]
               \/ u_data' = [u_data EXCEPT !.binning = v]
               \/ u_data' = [u_data EXCEPT !.aliens = v] /\ u_data.alien_alg = 1
          /\ u_data' # u_data
          /\ UNCHANGED u_rec
       \/ \* DataTab.set_alien_layout: a new choice brings new, empty widgets
          /\ \E i \in {0, 1} :
               /\ i # u_data.alien_alg
               /\ u_data' = [u_data EXCEPT !.alien_alg = i, !.aliens = <<>>]
          /\ UNCHANGED u_rec
       \/ /\ \E v \in FieldTexts :
               \/ u_rec' = [u_rec EXCEPT !.reconstructions = v]
               \/ u_rec' = [u_rec EXCEPT !.device = v]
          /\ u_rec' # u_rec
          /\ UNCHANGED u_data
    /\ u_last' = Last("edit", "returned", <<>>)
    /\ u_edits' = u_edits + 1
    /\ UNCHANGED <<fs, u_w, u_f, u_t, u_pc, u_load>>
    /\ UNCHANGED <<pVars, wc, wcCalls, gVars, rVars, u_run, u_conf>>

\* ---- reading configuration files back (load_experiment) ----

\* int(literal) of a one-digit literal
VerNum(v) == (CHOOSE n \in 1..10 : Digits[n] = v[1]) - 1

\* the position of the first ' = ' of a line, 0 when there is none
RECURSIVE FindEq(_, _)
FindEq(line, i) ==
    IF i + Len(S_eq) - 1 > Len(line) THEN 0
    ELSE IF SubSeq(line, i, i + Len(S_eq) - 1) = S_eq THEN i
    ELSE FindEq(line, i + 1)

KeyOf(line) == SubSeq(line, 1, FindEq(line, 1) - 1)
ValOf(line) == SubSeq(line, FindEq(line, 1) + Len(S_eq), Len(line))

\* ut.read_config raises for a file it cannot parse
Parsable(lines) == \A k \in 1..Len(lines) : FindEq(lines[k], 1) > 1

\* ut.read_config: the entries of the file, key and literal
UtReadConfig(lines) ==
    [k \in 1..Len(lines) |-> E(KeyOf(lines[k]), ValOf(lines[k]))]

\* hasattr(conf_map, key)
HasKey(conf_map, key) == \E k \in 1..Len(conf_map) : conf_map[k].key = key

\* the literal of a key; a later line of the file wins
Literal(conf_map, key) ==
    conf_map[CHOOSE k \in 1..Len(conf_map) :
                /\ conf_map[k].key = key
                /\ \A m \in (k + 1)..Len(conf_map) : conf_map[m].key # key].value

IsQuoted(v) == Len(v) >= 2 /\ v[1] = "\"" /\ v[Len(v)] = "\""

\* str(conf_map.key): a string literal without its quotes, a number as written
AttrStr(conf_map, key) ==
    LET v == Literal(conf_map, key)
    IN  IF IsQuoted(v) THEN SubSeq(v, 2, Len(v) - 1) ELSE v

\* the path a text names: its components between the '/'
RECURSIVE SplitPath(_, _)
SplitPath(s, cur) ==
    IF s = <<>> THEN (IF cur = <<>> THEN <<>> ELSE <<cur>>)
    ELSE IF Head(s) = "/"
         THEN (IF cur = <<>> THEN <<>> ELSE <<cur>>) \o SplitPath(Tail(s), <<>>)
         ELSE SplitPath(Tail(s), Append(cur, Head(s)))

StrPath(s) == SplitPath(s, <<>>)

\* names of the older schema
S_samples == <<"s","a","m","p","l","e","s">>
S_amp_threshold == <<"a","m","p","_","t","h","r","e","s","h","o","l","d">>

\* the name a parameter of an older schema has in the latest one
NewName(key) ==
    IF key = S_samples THEN S_reconstructions
    ELSE IF key = S_amp_threshold THEN S_intensity_threshold
    ELSE key

\* conv.get_conf_dict(file, kind): the entries of the file in the latest
\* schema; renamed parameters get their new names, values are preserved
ConvGetConfDict(lines) ==
    LET conf_map == UtReadConfig(lines)
    IN  [k \in 1..Len(conf_map) |->
            E(NewName(conf_map[k].key), conf_map[k].value)]

\* os.path.isfile(specfile)
SpecFileExists(specfile) == specfile = SpecFile

\* cdi_gui.load_main
LoadMain(w, f, fsys, load_dir) ==
    LET lines == fsys.files[Join(Join(load_dir, S_conf), S_config)]
    IN  IF ~Parsable(lines)
        THEN [parsed |-> FALSE, w |-> w, f |-> f, need_convert |-> FALSE,
              msgs |-> <<"cannot parse">>]
        ELSE
        LET conf_map0 == UtReadConfig(lines)
            w1 == [w EXCEPT !.wd =
                      IF HasKey(conf_map0, S_working_dir)
                         /\ IsQuoted(Literal(conf_map0, S_working_dir))
                      THEN StrPath(AttrStr(conf_map0, S_working_dir))
                      ELSE <<>>]
            need_convert ==
                \/ ~HasKey(conf_map0, S_converter_ver)
                \/ VerNum(Literal(conf_map0, S_converter_ver)) < ConvVersion
            conf_map == IF need_convert THEN ConvGetConfDict(lines)
                        ELSE conf_map0
            QuotedAttr(key) == HasKey(conf_map, key)
                                 /\ IsQuoted(Literal(conf_map, key))
            badSpec == QuotedAttr(S_specfile)
                         /\ ~SpecFileExists(AttrStr(conf_map, S_specfile))
            w2 == [w1 EXCEPT
                     !.id = IF QuotedAttr(S_experiment_id)
                            THEN AttrStr(conf_map, S_experiment_id) ELSE <<>>,
                     !.scan = IF QuotedAttr(S_scan)
                              THEN RemoveBlanks(AttrStr(conf_map, S_scan))
                              ELSE <<>>,
                     !.spec = IF QuotedAttr(S_specfile)
                              THEN IF badSpec THEN @
                                   ELSE AttrStr(conf_map, S_specfile)
                              ELSE <<>>,
                     !.beamline = IF QuotedAttr(S_beamline)
                                  THEN AttrStr(conf_map, S_beamline) ELSE <<>>]
        IN  [parsed |-> TRUE, w |-> w2,
             f |-> [f EXCEPT !.working_dir = NoPath],
             need_convert |-> need_convert,
             msgs |-> IF badSpec THEN <<"specfile does not exist">> ELSE <<>>]

\* cdi_gui.reset_window, attributes
ResetWindow(f) ==
    [f EXCEPT !.exp_id = None, !.experiment_dir = NoPath,
              !.working_dir = NoPath, !.specfile = None]

\* the widgets of the Data tab after the parameters of conf_map are shown
DataShow(d, conf_map) ==
    LET alg == IF HasKey(conf_map, S_alien_alg)
               THEN AttrStr(conf_map, S_alien_alg) ELSE <<"n","o","n","e">>
        index == IF alg = <<"n","o","n","e">> THEN 0
                 ELSE IF alg = S_block_aliens THEN 1
                 ELSE d.alien_alg
        Shown(key, old) == IF HasKey(conf_map, key)
                           THEN RemoveBlanks(AttrStr(conf_map, key)) ELSE old
    IN  [alien_alg |-> index,
         aliens |-> IF index # 1 THEN <<>>
                    ELSE IF alg = S_block_aliens
                    THEN Shown(S_aliens, IF d.alien_alg = 1 THEN d.aliens ELSE <<>>)
                    ELSE d.aliens,
         intensity_threshold |-> Shown(S_intensity_threshold,
                                       d.intensity_threshold),
         binning |-> Shown(S_binning, d.binning)]

\* DataTab.load_tab(load_dir, need_convert) for a directory
DataLoadTab(fsys, f, d, load_dir, need_convert, accept) ==
    LET conf_dir == Join(load_dir, S_conf)
        conf == Join(conf_dir, S_config_data)
    IN  IF ~IsFile(fsys, conf) THEN [fs |-> fsys, d |-> d]
        ELSE IF need_convert
        THEN LET conf_dict == ConvGetConfDict(fsys.files[conf])
             IN  [fs |-> IF f.experiment_dir = NoPath
                         THEN fsys  \* os.path.join(None, 'conf') raises, and
                                    \* the except clause passes
                         ELSE WriteConf(fsys, conf_dict,
                                        Join(f.experiment_dir, S_conf),
                                        S_config_data, accept).fs,
                  d |-> DataShow(d, conf_dict)]
        ELSE IF ~Parsable(fsys.files[conf]) THEN [fs |-> fsys, d |-> d]
        ELSE [fs |-> fsys, d |-> DataShow(d, UtReadConfig(fsys.files[conf]))]

\* RecTab.load_tab_common, for the widgets of the model
RecShow(r, conf_map) ==
    LET Shown(key, old) == IF HasKey(conf_map, key)
                           THEN RemoveBlanks(AttrStr(conf_map, key)) ELSE old
    IN  [reconstructions |-> Shown(S_reconstructions, r.reconstructions),
         device |-> Shown(S_device, r.device)]

\* RecTab.load_tab(load_dir, need_convert)
RecLoadTab(fsys, r, load_dir, need_convert, accept) ==
    LET conf_dir == Join(load_dir, S_conf)
        conf == Join(conf_dir, S_config_rec)
    IN  IF ~IsFile(fsys, conf) THEN [fs |-> fsys, r |-> r]
        ELSE IF need_convert
        THEN LET conf_dict == ConvGetConfDict(fsys.files[conf])
             IN  [fs |-> WriteConf(fsys, conf_dict, conf_dir, S_config_rec,
                                   accept).fs,
                  r |-> RecShow(r, conf_dict)]
        ELSE IF ~Parsable(fsys.files[conf]) THEN [fs |-> fsys, r |-> r]
        ELSE [fs |-> fsys, r |-> RecShow(r, UtReadConfig(fsys.files[conf]))]

\* ---- the reconstruction configurations of the Reconstruction tab ----

\* the ids of the files of a directory that end with '_config_rec', in the
\* order of os.listdir (here: shorter names first)
RECURSIVE SortedIds(_)
SortedIds(ids) ==
    IF ids = {} THEN <<>>
    ELSE LET first == CHOOSE x \in ids : \A y \in ids : Len(x) <= Len(y)
         IN  <<first>> \o SortedIds(ids \ {first})

RecIdsIn(fsys, conf_dir) ==
    LET suffix == S_us \o S_config_rec
        names == {q[Len(q)] : q \in {x \in DOMAIN fsys.files :
                                        /\ Len(x) = Len(conf_dir) + 1
                                        /\ SubSeq(x, 1, Len(conf_dir)) = conf_dir}}
    IN  SortedIds({SubSeq(n, 1, Len(n) - Len(suffix)) :
                     n \in {x \in names : EndsWith(x, suffix)}})

\* RecTab.update_rec_configs_choice
UpdateRecConfigsChoice(c, w, f, fsys) ==
    IF ~IsExpSet(w, f) THEN c
    ELSE LET ids == RecIdsIn(fsys, Join(f.experiment_dir, S_conf))
         IN  [c EXCEPT !.rec_ids = ids, !.has_rec_ids = TRUE,
                       !.items = @ \o ids]

\* RecTab.load_tab reaches load_tab_common
RecTabLoads(fsys, load_dir, need_convert) ==
    LET conf == Join(Join(load_dir, S_conf), S_config_rec)
    IN  /\ IsFile(fsys, conf)
        /\ need_convert \/ Parsable(fsys.files[conf])

\* Tabs.load_conf: load_tab of every tab, in the order of Tabs.tabs; the
\* beamline's tabs have no widgets in the model
RECURSIVE TabsLoadConf(_, _, _, _, _, _, _, _)
TabsLoadConf(tabs, fsys, f, d, r, load_dir, need_convert, acc) ==
    IF tabs = <<>> THEN [fs |-> fsys, d |-> d, r |-> r]
    ELSE LET tab == Head(tabs)
             rest == Tail(tabs)
         IN  IF tab = "data"
             THEN LET l == DataLoadTab(fsys, f, d, load_dir, need_convert,
                                       acc.load_data)
                  IN  TabsLoadConf(rest, l.fs, f, l.d, r, load_dir,
                                   need_convert, acc)
             ELSE IF tab = "rec"
             THEN LET l == RecLoadTab(fsys, r, load_dir, need_convert,
                                      acc.load_rec)
                  IN  TabsLoadConf(rest, l.fs, f, d, l.r, load_dir,
                                   need_convert, acc)
             ELSE TabsLoadConf(rest, fsys, f, d, r, load_dir, need_convert, acc)

\* experiments that are on the machine when the GUI starts:
\*   W1/o  written by an older version for beamline b, with data and
\*         reconstruction configs, an alternate reconstruction config r1,
\*         prepared and formatted data
\*   W1/q  of the current version, set up on a machine whose working
\*         directory /g does not exist here
\*   W1/b  with a main config that cannot be parsed
OldDir == Join(W1, <<"o">>)
MovedDir == Join(W1, <<"q">>)
BrokenDir == Join(W1, <<"b">>)
\*   W1/o_1  the directory of scan 1 of experiment o
ScanDir == Join(W1, <<"o","_","1">>)
\*   W1/c  a copy of the configuration of experiment o that was taken
\*         before its parameters were given their present names
CopyDir == Join(W1, <<"c">>)

\* what the directory dialog of load_experiment can return: an experiment, a
\* directory that is none, or None when it is cancelled
LoadDirs == {OldDir, MovedDir, BrokenDir, W1, NoPath}

\* what the dialog returns to a user who opens the copy of an experiment
CopyDirs == {CopyDir}

LoadAccepts == [main : BOOLEAN, data : BOOLEAN, rec : BOOLEAN,
                load_data : BOOLEAN, load_rec : BOOLEAN]

\* the 'load experiment' button: load_experiment, lines 348-361 (the dialog,
\* load_main and reset_window)
LoadExperimentFrom(dirs) ==
    /\ u_edits < MaxEdits
    /\ \E load_dir \in dirs :
          IF load_dir = NoPath
          THEN /\ u_last' = Last("load_experiment", "returned",
                                 <<"please select valid conf directory">>)
               /\ UNCHANGED <<u_w, u_f, u_data, u_rec, u_pc, u_load>>
          ELSE IF ~IsFile(fs, Join(Join(load_dir, S_conf), S_config))
          THEN /\ u_last' = Last("load_experiment", "returned",
                                 <<"missing conf/config file">>)
               /\ UNCHANGED <<u_w, u_f, u_data, u_rec, u_pc, u_load>>
          ELSE LET m == LoadMain(u_w, u_f, fs, load_dir)
               IN  IF ~m.parsed
                   THEN /\ u_last' = Last("load_experiment", "returned", m.msgs)
                        /\ UNCHANGED <<u_w, u_f, u_data, u_rec, u_pc, u_load>>
                   ELSE /\ u_w' = m.w
                        /\ u_f' = ResetWindow(m.f)
                        \* Tabs.clear_configs when the tabs exist
                        /\ u_data' = IF u_t # NoTabs THEN InitData ELSE u_data
                        /\ u_rec' = IF u_t # NoTabs THEN InitRec ELSE u_rec
                        /\ u_load' = [dir |-> load_dir,
                                      need_convert |-> m.need_convert]
                        /\ u_pc' = "load_set"
                        /\ u_last' = Last("load_experiment", "running", m.msgs)
    /\ u_edits' = u_edits + 1
    /\ UNCHANGED <<fs, u_t>>
    /\ UNCHANGED <<pVars, wc, wcCalls, gVars, rVars, u_run, u_conf>>

LoadExperimentBegin ==
    /\ u_pc = "idle"
    /\ LoadExperimentFrom(LoadDirs)

\* the 'load experiment' button, the dialog opened on a copy
LoadExperimentCopy ==
    /\ u_pc = "idle"
    /\ LoadExperimentFrom(CopyDirs)

\* load_experiment, line 362: set_experiment(True)
LoadExperimentSet ==
    /\ u_pc = "load_set"
    /\ LET b == SetExperimentBody(u_w, u_f, fs)
       IN  /\ u_w' = b.w
           /\ u_f' = b.f
           /\ fs' = b.fs
           /\ u_last' = Last("set_experiment",
                             IF b.ok THEN "returned" ELSE "rejected", b.msgs)
    /\ u_pc' = "load_tabs"
    /\ UNCHANGED <<u_t, u_data, u_rec, u_edits, u_load>>
    /\ UNCHANGED <<pVars, wc, wcCalls, gVars, rVars, u_run, u_conf>>

\* load_experiment, lines 363-374
LoadExperimentFinish ==
    /\ u_pc = "load_tabs"
    /\ LET t == IF u_t = NoTabs THEN NewTabs(u_w.beamline) ELSE u_t
       IN  /\ u_t' = t
           /\ IF t = NoTabs
              THEN \* self.t.load_conf on None
                   /\ u_last' = Last("load_experiment", "raised",
                                     <<"cannot import">>)
                   /\ UNCHANGED <<fs, u_data, u_rec, u_conf>>
              ELSE \E acc \in LoadAccepts :
                     LET l == TabsLoadConf(t, fs, u_f, u_data, u_rec,
                                           u_load.dir, u_load.need_convert, acc)
                     IN  /\ u_data' = l.d
                         /\ u_rec' = l.r
                         /\ u_conf' = IF RecTabLoads(fs, u_load.dir,
                                                    u_load.need_convert)
                                      THEN UpdateRecConfigsChoice(u_conf, u_w,
                                                                  u_f, l.fs)
                                      ELSE u_conf
                         /\ u_last' = Last("load_experiment", "returned", <<>>)
                         /\ IF ~IsExpSet(u_w, u_f)
                            THEN fs' = l.fs
                            ELSE LET f1 == SaveMain(l.fs, u_f, acc.main)
                                 IN  fs' = IF u_load.need_convert
                                           THEN TabsSaveConf(t, f1, u_f, l.d,
                                                             l.r, acc)
                                           ELSE f1
    /\ u_pc' = "idle"
    /\ u_load' = NoLoad
    /\ UNCHANGED <<u_w, u_f, u_edits>>
    /\ UNCHANGED <<pVars, wc, wcCalls, gVars, rVars, u_run>>

\* ---- the 'load data configuration' button of the Data tab ----

\* select_file: the file dialog returns an existing file, or None when it is
\* cancelled
DataConfFiles == {Join(Join(OldDir, S_conf), S_config_data)}

S_select_data_file == "please select valid data config file"

\* DataTab.load_data_conf: with a file, load_tab is called with one argument
\* while it has two parameters without defaults, which raises TypeError before
\* the body of load_tab runs
LoadDataConf ==
    /\ u_pc = "idle"
    /\ u_edits < MaxEdits
    /\ u_t # NoTabs
    /\ \E data_file \in DataConfFiles \cup {NoPath} :
         IF data_file # NoPath
         THEN u_last' = Last("load_data_conf", "raised", <<"TypeError">>)
         ELSE u_last' = Last("load_data_conf", "returned",
                             <<S_select_data_file>>)
    /\ u_edits' = u_edits + 1
    /\ UNCHANGED <<fs, u_w, u_f, u_t, u_data, u_rec, u_pc, u_load>>
    /\ UNCHANGED <<pVars, wc, wcCalls, gVars, rVars, u_run, u_conf>>

\* ---- the feature panels of the Reconstruction tab ----

\* Features.__init__: the ids of feature_dir, in its order
FeatureIds == <<"GA", "low resolution", "shrink wrap", "phase support",
                "pcdi", "twin", "average", "progress">>

\* the keys each feature's add_feat_conf assigns, in the order of its
\* statements
FeatureKeys(id) ==
    CASE id = "GA" ->
        <<<<"g","a","_","g","e","n","e","r","a","t","i","o","n","s">>,
          <<"g","a","_","m","e","t","r","i","c","s">>,
          <<"g","a","_","b","r","e","e","d","_","m","o","d","e","s">>,
          <<"g","a","_","c","u","l","l","i","n","g","s">>,
          <<"g","a","_","s","h","r","i","n","k","_","w","r","a","p","_","t","h","r","e","s","h","o","l","d","s">>,
          <<"g","a","_","s","h","r","i","n","k","_","w","r","a","p","_","g","a","u","s","s","_","s","i","g","m","a","s">>,
          <<"g","a","_","l","o","w","p","a","s","s","_","f","i","l","t","e","r","_","s","i","g","m","a","s">>,
          <<"g","a","_","g","e","n","_","p","c","_","s","t","a","r","t">>>>
      [] id = "low resolution" ->
        <<<<"r","e","s","o","l","u","t","i","o","n","_","t","r","i","g","g","e","r">>,
          <<"l","o","w","p","a","s","s","_","f","i","l","t","e","r","_","s","w","_","s","i","g","m","a","_","r","a","n","g","e">>,
          <<"l","o","w","p","a","s","s","_","f","i","l","t","e","r","_","r","a","n","g","e">>>>
      [] id = "shrink wrap" ->
        <<<<"s","h","r","i","n","k","_","w","r","a","p","_","t","r","i","g","g","e","r">>,
          <<"s","h","r","i","n","k","_","w","r","a","p","_","t","y","p","e">>,
          <<"s","h","r","i","n","k","_","w","r","a","p","_","t","h","r","e","s","h","o","l","d">>,
          <<"s","h","r","i","n","k","_","w","r","a","p","_","g","a","u","s","s","_","s","i","g","m","a">>>>
      [] id = "phase support" ->
        <<<<"p","h","a","s","e","_","s","u","p","p","o","r","t","_","t","r","i","g","g","e","r">>,
          <<"p","h","m","_","p","h","a","s","e","_","m","i","n">>,
          <<"p","h","m","_","p","h","a","s","e","_","m","a","x">>>>
      [] id = "pcdi" ->
        <<<<"p","c","_","i","n","t","e","r","v","a","l">>,
          <<"p","c","_","t","y","p","e">>,
          <<"p","c","_","L","U","C","Y","_","i","t","e","r","a","t","i","o","n","s">>,
          <<"p","c","_","n","o","r","m","a","l","i","z","e">>,
          <<"p","c","_","L","U","C","Y","_","k","e","r","n","e","l">>>>
      [] id = "twin" ->
        <<<<"t","w","i","n","_","t","r","i","g","g","e","r">>,
          <<"t","w","i","n","_","h","a","l","v","e","s">>>>
      [] id = "average" ->
        <<<<"a","v","e","r","a","g","e","_","t","r","i","g","g","e","r">>>>
      [] id = "progress" ->
        <<<<"p","r","o","g","r","e","s","s","_","t","r","i","g","g","e","r">>>>

\* add_feat_conf of pcdi and of shrink wrap put quotes around the type
FeatureQuotes(key) ==
    key \in {<<"p","c","_","t","y","p","e">>,
             <<"s","h","r","i","n","k","_","w","r","a","p","_","t","y","p","e">>}

\* shrink_wrap.add_feat_conf assigns a key only when its line edit is not
\* empty; the other features assign every key
FeatureSkipsEmpty(id) == id = "shrink wrap"

\* conf_map[key] = value on a dict kept in insertion order
Put(conf_map, key, value) ==
    IF \E i \in 1..Len(conf_map) : conf_map[i].key = key
    THEN [i \in 1..Len(conf_map) |->
            IF conf_map[i].key = key THEN E(key, value) ELSE conf_map[i]]
    ELSE Append(conf_map, E(key, value))

\* add_feat_conf of feature id, from its k-th key on
RECURSIVE AddFeatConf(_, _, _, _)
AddFeatConf(id, texts, conf_map, k) ==
    IF k > Len(FeatureKeys(id)) THEN conf_map
    ELSE LET key == FeatureKeys(id)[k]
             text == texts[k]
             value == IF FeatureQuotes(key) THEN Quote(text) ELSE text
         IN  AddFeatConf(id, texts,
                         IF FeatureSkipsEmpty(id) /\ Len(text) = 0
                         THEN conf_map ELSE Put(conf_map, key, value),
                         k + 1)

\* an add_config that does not look at the active box
AddConfig_always(id, panel, conf_map) ==
    AddFeatConf(id, panel.texts, conf_map, 1)

\* Feature.add_config
AddConfig(id, panel, conf_map) ==
    IF panel.active THEN AddFeatConf(id, panel.texts, conf_map, 1)
    ELSE conf_map

\* get_rec_config, lines 1168-1169: add_config of every feature of feature_dir
RECURSIVE AddFeatures(_, _, _)
AddFeatures(feat, conf_map, n) ==
    IF n > Len(FeatureIds) THEN conf_map
    ELSE AddFeatures(feat,
                     AddConfig(FeatureIds[n], feat[FeatureIds[n]], conf_map),
                     n + 1)

\* RecTab.get_rec_config with the feature panels
GetRecConfigFeat(r, feat) == AddFeatures(feat, GetRecConfig(r), 1)

FeatureSet == {FeatureIds[n] : n \in 1..Len(FeatureIds)}

\* the line edits of a panel that fill_active has just made
EmptyTexts(id) == [k \in 1..Len(FeatureKeys(id)) |-> <<>>]

\* Feature.stackUI: the active box is not checked, toggle() clears the panel
InitFeat == [id \in FeatureSet |-> [active |-> FALSE, texts |-> EmptyTexts(id)]]

\* the user checks or unchecks the active box of a feature: Feature.toggle
\* makes new, empty line edits for a checked box and takes the line edits of
\* an unchecked one off the panel
ToggleFeature ==
    /\ p_ops < MaxPanelOps
    /\ \E id \in FeatureSet :
         p_feat' = [p_feat EXCEPT ![id] =
                      IF @.active THEN [@ EXCEPT !.active = FALSE]
                      ELSE [active |-> TRUE, texts |-> EmptyTexts(id)]]
    /\ p_ops' = p_ops + 1
    /\ p_prev' = p_feat
    /\ UNCHANGED <<fs, wc, wcCalls, gVars, rVars>>
    /\ UNCHANGED <<u_w, u_f, u_t, u_data, u_rec, u_last, u_edits, u_pc, u_load,
                   u_run, u_conf>>

\* the user types into a line edit of an active feature
EditFeature ==
    /\ p_ops < MaxPanelOps
    /\ \E id \in FeatureSet :
         /\ p_feat[id].active
         /\ \E k \in 1..Len(FeatureKeys(id)) :
              \E text \in FieldTexts :
                 /\ text # p_feat[id].texts[k]
                 /\ p_feat' = [p_feat EXCEPT ![id].texts[k] = text]
    /\ p_ops' = p_ops + 1
    /\ p_prev' = p_feat
    /\ UNCHANGED <<fs, wc, wcCalls, gVars, rVars>>
    /\ UNCHANGED <<u_w, u_f, u_t, u_data, u_rec, u_last, u_edits, u_pc, u_load,
                   u_run, u_conf>>

\* the Reconstruction tab when the user turns to the feature panels
RecTexts == {InitRec, [reconstructions |-> <<"2">>, device |-> <<"2">>]}

PStartState ==
    /\ u_w = InitWidgets
    /\ u_f = InitFields
    /\ u_t = NoTabs
    /\ u_data = InitData
    /\ u_rec \in RecTexts
    /\ u_last = Last("idle", "returned", <<>>)
    /\ u_edits = 0
    /\ u_pc = "idle"
    /\ u_load = NoLoad
    /\ u_run = NoRun
    /\ u_conf = InitConf
    /\ p_feat = InitFeat
    /\ p_ops = 0
    /\ p_prev = InitFeat

PIdle == p_feat = InitFeat /\ p_ops = 0 /\ p_prev = InitFeat

PNext == ToggleFeature \/ EditFeature

\* the configuration file of the selected reconstruction configuration
RecConfFile(old_conf_id) ==
    IF old_conf_id = <<>> THEN S_config_rec
    ELSE old_conf_id \o S_us \o S_config_rec

\* toggle_conf when old_conf_id follows the selection whatever write_conf
\* returned
OldConfIdAfter_always(c, sel, ret) ==
    IF c.items[sel] = S_main THEN <<>> ELSE c.items[sel]

\* toggle_conf, lines 1267-1273: old_conf_id after write_conf returned ret
OldConfIdAfter(c, sel, ret) ==
    IF ret
    THEN IF c.items[sel] = S_main THEN <<>> ELSE c.items[sel]
    ELSE c.old_conf_id

\* RecTab.toggle_conf after the rec_id combo box changed to its item sel
ToggleConf(c, r, f, fsys, sel, accept) ==
    LET c1 == [c EXCEPT !.current = sel]
    IN  IF f.experiment_dir = NoPath
        THEN \* os.path.join(None, 'conf') raises
             [c |-> c1, r |-> r, fs |-> fsys, result |-> "raised"]
        ELSE
        LET conf_dir == Join(f.experiment_dir, S_conf)
            conf_map == GetRecConfig(r)
            selected == Join(conf_dir,
                             RecConfFile(OldConfIdAfter_always(c, sel, TRUE)))
            wr == WriteConf(fsys, conf_map, conf_dir,
                            RecConfFile(c.old_conf_id), accept)
            old_conf_id == OldConfIdAfter(c, sel, wr.ret)
            conf_file == Join(conf_dir, RecConfFile(old_conf_id))
            c2 == [c1 EXCEPT !.old_conf_id = old_conf_id,
                             !.last_toggle =
                                 [from |-> RecConfFile(c.old_conf_id),
                                  to |-> selected[Len(selected)],
                                  shown |-> conf_map,
                                  to_before |-> Entry(fsys, selected)]]
        IN  IF IsFile(wr.fs, conf_file) /\ Parsable(wr.fs.files[conf_file])
            THEN [c |-> c2, fs |-> wr.fs, result |-> "returned",
                  r |-> RecShow(r, UtReadConfig(wr.fs.files[conf_file]))]
            ELSE [c |-> c2, fs |-> wr.fs, result |-> "returned", r |-> r]

\* the user selects another item of the rec_id combo box
ToggleConfChoice ==
    /\ u_pc = "idle"
    /\ u_edits < MaxEdits
    /\ u_t # NoTabs
    /\ \E sel \in 1..Len(u_conf.items) : \E accept \in BOOLEAN :
         /\ sel # u_conf.current
         /\ LET t == ToggleConf(u_conf, u_rec, u_f, fs, sel, accept)
            IN  /\ u_conf' = t.c
                /\ u_rec' = t.r
                /\ fs' = t.fs
                /\ u_last' = Last("toggle_conf", t.result, <<>>)
    /\ u_edits' = u_edits + 1
    /\ UNCHANGED <<u_w, u_f, u_t, u_data, u_pc, u_load, u_run>>
    /\ UNCHANGED <<pVars, wc, wcCalls, gVars, rVars>>

\* what the user can enter in the dialog of add_rec_conf
ConfIdTexts == {<<>>, S_r1, <<"n">>}

\* the 'add configuration' button: RecTab.add_rec_conf
AddRecConf ==
    /\ u_pc = "idle"
    /\ u_edits < MaxEdits
    /\ u_t # NoTabs
    /\ \E id \in ConfIdTexts : \E ok, accept \in BOOLEAN :
         LET conf_dir == Join(u_f.experiment_dir, S_conf)
             conf_file == Join(conf_dir, S_config_rec)
             added == [u_conf EXCEPT !.items = Append(@, id)]
             copied == Copy(fs, conf_file, Join(conf_dir, RecConfFile(id)))
             t == ToggleConf(added, u_rec, u_f, copied, Len(added.items),
                             accept)
         IN  IF ~u_conf.has_rec_ids
             THEN \* self.rec_ids has not been assigned
                  /\ u_last' = Last("add_rec_conf", "raised", <<>>)
                  /\ UNCHANGED <<fs, u_conf, u_rec>>
             ELSE IF \E n \in 1..Len(u_conf.rec_ids) : u_conf.rec_ids[n] = id
             THEN /\ u_last' = Last("add_rec_conf", "returned",
                                    <<"is alredy used">>)
                  /\ UNCHANGED <<fs, u_conf, u_rec>>
             ELSE IF ~(ok /\ Len(id) > 0)
             THEN /\ u_last' = Last("add_rec_conf", "returned", <<>>)
                  /\ UNCHANGED <<fs, u_conf, u_rec>>
             ELSE IF u_f.experiment_dir = NoPath \/ ~IsFile(fs, conf_file)
             THEN \* os.path.join or shutil.copyfile raises
                  /\ u_conf' = added
                  /\ u_last' = Last("add_rec_conf", "raised", <<>>)
                  /\ UNCHANGED <<fs, u_rec>>
             ELSE /\ u_conf' = t.c
                  /\ u_rec' = t.r
                  /\ fs' = t.fs
                  /\ u_last' = Last("add_rec_conf", t.result, <<>>)
    /\ u_edits' = u_edits + 1
    /\ UNCHANGED <<u_w, u_f, u_t, u_data, u_pc, u_load, u_run>>
    /\ UNCHANGED <<pVars, wc, wcCalls, gVars, rVars>>

\* ---- running the stages from the GUI ----

S_prep_data_tif == <<"p","r","e","p","_","d","a","t","a",".","t","i","f">>
S_data_tif == <<"d","a","t","a",".","t","i","f">>
S_data_npy == <<"d","a","t","a",".","n","p","y">>

\* the loop over os.walk(dir): a file of that name somewhere under dir
FoundFile(fsys, dir, name) ==
    \E q \in DOMAIN fsys.files :
        /\ Len(q) > Len(dir)
        /\ SubSeq(q, 1, Len(dir)) = dir
        /\ q[Len(q)] = name

\* what a call of is_exp_exists or is_exp_set returned
Returned(b) == IF b THEN "true" ELSE "false"

\* what one run_tab did: the results of its two tests, the file it handed to
\* write_conf and the result of write_conf, whether it called the stage script
TabRun(tab, exists, set, file, accepted, launched) ==
    [tab |-> tab, exists |-> exists, set |-> set, file |-> file,
     accepted |-> accepted, launched |-> launched]

\* a run_tab that calls the stage script whatever write_conf returned
Launches_unverified(ret) == TRUE

\* run_tab, lines 900 and 1350: 'if write_conf(...)' guards the call of the
\* stage script
Launches(ret) == ret

\* a run_tab that does not ask whether the experiment is set
RunGuard_noset(w, f, fsys) ==
    IF ~IsExpExists(w, f, fsys) THEN "not created" ELSE ""

\* run_tab, lines 886-889 and 1325-1328
RunGuard(w, f, fsys) ==
    IF ~IsExpExists(w, f, fsys) THEN "not created"
    ELSE IF ~IsExpSet(w, f) THEN "changed"
    ELSE ""

\* the first columns of TabRun for a run_tab stopped by its guard
Stopped(tab, guard) ==
    TabRun(tab, Returned(guard # "not created"),
           IF guard = "not created" THEN "not called" ELSE Returned(guard = ""),
           None, "not called", FALSE)

\* DataTab.run_tab up to the call of format_data
DataRunTab(w, f, fsys, d, accept) ==
    LET guard == RunGuard(w, f, fsys)
    IN  IF guard # ""
        THEN [fs |-> fsys, did |-> Stopped("data", guard)]
        ELSE IF Len(d.intensity_threshold) = 0
                \/ ~FoundFile(fsys, f.experiment_dir, S_prep_data_tif)
        THEN [fs |-> fsys,
              did |-> TabRun("data", "true", "true", None, "not called", FALSE)]
        ELSE LET wr == WriteConf(fsys, GetDataConfig(d),
                                 Join(f.experiment_dir, S_conf), S_config_data,
                                 accept)
             IN  [fs |-> wr.fs,
                  did |-> TabRun("data", "true", "true", S_config_data,
                                 Returned(wr.ret), Launches(wr.ret))]

\* RecTab.run_tab up to the call of manage_reconstruction
RecRunTab(w, f, fsys, r, c, accept) ==
    LET guard == RunGuard(w, f, fsys)
    IN  IF guard # ""
        THEN [fs |-> fsys, did |-> Stopped("rec", guard)]
        ELSE IF ~(FoundFile(fsys, f.experiment_dir, S_data_tif)
                  \/ FoundFile(fsys, f.experiment_dir, S_data_npy))
        THEN [fs |-> fsys,
              did |-> TabRun("rec", "true", "true", None, "not called", FALSE)]
        ELSE LET conf_file == RecConfFile(c.old_conf_id)
                 wr == WriteConf(fsys, GetRecConfig(r),
                                 Join(f.experiment_dir, S_conf), conf_file,
                                 accept)
             IN  [fs |-> wr.fs,
                  did |-> TabRun("rec", "true", "true", conf_file,
                                 Returned(wr.ret), Launches(wr.ret))]

\* run_tab of the beamline's PrepTab and DispTab: the same two tests, then the
\* tab's own configuration is saved and Tabs.run_prep or Tabs.run_viz called;
\* ready stands for the tab's own tests and the result of its write_conf
BeamRunTab(tab, w, f, fsys, ready) ==
    LET guard == RunGuard(w, f, fsys)
    IN  IF guard # ""
        THEN [fs |-> fsys, did |-> Stopped(tab, guard)]
        ELSE [fs |-> fsys,
              did |-> TabRun(tab, "true", "true", None, Returned(ready), ready)]

\* tab.run_tab() up to the call of the stage script
RunTab(tab, w, f, fsys, d, r, c, accept) ==
    IF tab = "data" THEN DataRunTab(w, f, fsys, d, accept)
    ELSE IF tab = "rec" THEN RecRunTab(w, f, fsys, r, c, accept)
    ELSE BeamRunTab(tab, w, f, fsys, accept)

\* what a stage script leaves in the experiment directory when it succeeds
StageOutput(tab) ==
    IF tab = "prep" THEN <<S_prep_data_tif>>
    ELSE IF tab = "data" THEN <<S_data_tif>>
    ELSE <<>>

\* the stage script of a tab has run in experiment_dir; ok tells whether it
\* produced its output
StageRun(fsys, tab, experiment_dir, ok) ==
    IF ok /\ StageOutput(tab) # <<>>
    THEN [fsys EXCEPT !.files =
            (Join(experiment_dir, StageOutput(tab)[1]) :> <<>>) @@ @]
    ELSE fsys

\* the queue of a run after the head tab is done, and where the GUI is then
Advance(run) == [run EXCEPT !.queue = Tail(@), !.launching = "none"]
PcAfter(run) == IF Len(run.queue) > 1 THEN "run" ELSE "idle"

\* the 'run everything' button: cdi_gui.run_everything
RunEverything ==
    /\ u_pc = "idle"
    /\ u_edits < MaxEdits
    /\ LET exists == IsExpExists(u_w, u_f, fs)
           set == IsExpSet(u_w, u_f)
           start == [NoRun EXCEPT !.op = "run_everything"]
       IN  IF ~exists
           THEN /\ u_run' = [start EXCEPT !.checks = "not created"]
                /\ u_last' = Last("run_everything", "returned",
                                  <<"the experiment has not been created yet">>)
                /\ u_pc' = "idle"
           ELSE IF ~set
           THEN /\ u_run' = [start EXCEPT !.checks = "changed"]
                /\ u_last' = Last("run_everything", "returned",
                                  <<"the experiment has changed">>)
                /\ u_pc' = "idle"
           ELSE /\ u_run' = [start EXCEPT !.checks = "passed",
                                          !.queue = IF u_t = NoTabs THEN <<>>
                                                    ELSE u_t]
                /\ u_last' = Last("run_everything", "running", <<>>)
                /\ u_pc' = IF u_t = NoTabs THEN "idle" ELSE "run"
    /\ u_edits' = u_edits + 1
    /\ UNCHANGED <<fs, u_w, u_f, u_t, u_data, u_rec, u_load, u_conf>>
    /\ UNCHANGED <<pVars, wc, wcCalls, gVars, rVars>>

\* the run button of the Data or of the Reconstruction tab
RunTabButton ==
    /\ u_pc = "idle"
    /\ u_edits < MaxEdits
    /\ u_t # NoTabs
    /\ \E tab \in {"data", "rec"} :
         /\ u_run' = [NoRun EXCEPT !.op = "run_tab", !.queue = <<tab>>]
         /\ u_last' = Last("run_tab", "running", <<>>)
    /\ u_pc' = "run"
    /\ u_edits' = u_edits + 1
    /\ UNCHANGED <<fs, u_w, u_f, u_t, u_data, u_rec, u_load, u_conf>>
    /\ UNCHANGED <<pVars, wc, wcCalls, gVars, rVars>>

\* run_tab of the next tab, up to the call of its stage script
RunTabStep ==
    /\ u_pc = "run"
    /\ u_run.launching = "none"
    /\ \E accept \in BOOLEAN :
         LET tab == Head(u_run.queue)
             r == RunTab(tab, u_w, u_f, fs, u_data, u_rec, u_conf, accept)
             logged == [u_run EXCEPT !.log = Append(@, r.did)]
         IN  /\ fs' = r.fs
             /\ IF r.did.launched
                THEN /\ u_run' = [logged EXCEPT !.launching = tab]
                     /\ u_pc' = "run"
                     /\ UNCHANGED u_last
                ELSE /\ u_run' = Advance(logged)
                     /\ u_pc' = PcAfter(u_run)
                     /\ u_last' = IF PcAfter(u_run) = "idle"
                                  THEN [u_last EXCEPT !.result = "returned"]
                                  ELSE u_last
    /\ UNCHANGED <<u_w, u_f, u_t, u_data, u_rec, u_edits, u_load, u_conf>>
    /\ UNCHANGED <<pVars, wc, wcCalls, gVars, rVars>>

\* the stage script called by run_tab runs and returns
StageReturns ==
    /\ u_pc = "run"
    /\ u_run.launching # "none"
    /\ \E ok \in BOOLEAN :
         fs' = StageRun(fs, u_run.launching, u_f.experiment_dir, ok)
    /\ u_run' = Advance(u_run)
    /\ u_pc' = PcAfter(u_run)
    /\ u_last' = IF PcAfter(u_run) = "idle"
                 THEN [u_last EXCEPT !.result = "returned"] ELSE u_last
    /\ UNCHANGED <<u_w, u_f, u_t, u_data, u_rec, u_edits, u_load, u_conf>>
    /\ UNCHANGED <<pVars, wc, wcCalls, gVars, rVars>>

\* the configuration files of the experiments on the machine
OldFiles ==
    (Join(Join(OldDir, S_conf), S_config) :>
        ConfLines(<<E(S_working_dir, Quote(PathStr(W1))),
                    E(S_experiment_id, Quote(<<"o">>)),
                    E(S_beamline, Quote(<<"b">>)),
                    E(S_converter_ver, <<"1">>)>>))
    @@ (Join(Join(OldDir, S_conf), S_config_data) :>
        ConfLines(<<E(S_intensity_threshold, <<"2">>)>>))
    @@ (Join(Join(OldDir, S_conf), S_config_rec) :>
        ConfLines(<<E(S_reconstructions, <<"2">>)>>))
    @@ (Join(Join(OldDir, S_conf), S_r1_config_rec) :>
        ConfLines(<<E(S_device, <<"2">>)>>))
    @@ (Join(OldDir, S_prep_data_tif) :> <<>>)
    @@ (Join(OldDir, S_data_tif) :> <<>>)
    @@ (Join(Join(MovedDir, S_conf), S_config) :>
        ConfLines(<<E(S_working_dir, Quote(<<"/","g">>)),
                    E(S_experiment_id, Quote(<<"q">>)),
                    E(S_converter_ver, <<Digits[ConvVersion + 1]>>)>>))
    @@ (Join(Join(BrokenDir, S_conf), S_config) :> << <<"?">> >>)
    @@ (Join(Join(CopyDir, S_conf), S_config) :>
        ConfLines(<<E(S_working_dir, Quote(PathStr(W1))),
                    E(S_experiment_id, Quote(<<"o">>)),
                    E(S_beamline, Quote(<<"b">>)),
                    E(S_converter_ver, <<"1">>)>>))
    @@ (Join(Join(CopyDir, S_conf), S_config_data) :>
        ConfLines(<<E(S_amp_threshold, <<"3">>)>>))
    @@ (Join(Join(CopyDir, S_conf), S_config_rec) :>
        ConfLines(<<E(S_samples, <<"3">>)>>))

\* the machine when the GUI starts
UFs == [dirs |-> {W1, W2, OldDir, Join(OldDir, S_conf), MovedDir,
                  Join(MovedDir, S_conf), BrokenDir, Join(BrokenDir, S_conf),
                  ScanDir, CopyDir, Join(CopyDir, S_conf)},
        files |-> OldFiles]

UStartState ==
    /\ fs = UFs
    /\ u_w = InitWidgets
    /\ u_f = InitFields
    /\ u_t = NoTabs
    /\ u_data = InitData
    /\ u_rec = InitRec
    /\ u_last = Last("init", "returned", <<>>)
    /\ u_edits = 0
    /\ u_pc = "idle"
    /\ u_load = NoLoad
    /\ u_run = NoRun
    /\ u_conf = InitConf

UIdle ==
    /\ u_w = InitWidgets
    /\ u_f = InitFields
    /\ u_t = NoTabs
    /\ u_data = InitData
    /\ u_rec = InitRec
    /\ u_last = Last("idle", "returned", <<>>)
    /\ u_edits = 0
    /\ u_pc = "idle"
    /\ u_load = NoLoad
    /\ u_run = NoRun
    /\ u_conf = InitConf

UNext ==
    \/ SetExperiment \/ SetWorkingDir \/ SetSpecFile \/ EditMain \/ EditTab
    \/ LoadExperimentBegin \/ LoadExperimentSet \/ LoadExperimentFinish

\* the GUI of a user who opens experiments with 'load experiment' and works
\* with the configurations of the Data and Reconstruction tabs
URecNext ==
    \/ EditTab \/ LoadDataConf
    \/ LoadExperimentBegin \/ LoadExperimentCopy
    \/ LoadExperimentSet \/ LoadExperimentFinish
    \/ ToggleConfChoice \/ AddRecConf

\* the GUI of a user who opens experiments with 'load experiment', changes
\* the fields and presses the run buttons
URunNext ==
    \/ EditMain \/ EditTab
    \/ LoadExperimentBegin \/ LoadExperimentSet \/ LoadExperimentFinish
    \/ RunEverything \/ RunTabButton \/ RunTabStep \/ StageReturns

-----------------------------------------------------------------------------
(* Specifications *)

FsIdle == fs = WcEmptyFs

WcInit == WcStart /\ GIdle /\ RIdle /\ UIdle /\ PIdle
SpecWC == WcInit /\ [][WcNext]_vars

GInit == GStartState /\ FsIdle /\ WcIdle /\ RIdle /\ UIdle /\ PIdle
SpecMaps == GInit /\ [][GNext]_vars

RInit == RStartState /\ FsIdle /\ WcIdle /\ GIdle /\ UIdle /\ PIdle
SpecAll == RInit /\ [][RNext]_vars

UInit == UStartState /\ WcIdle /\ GIdle /\ RIdle /\ PIdle
SpecGui == UInit /\ [][UNext]_vars
SpecRun == UInit /\ [][URunNext]_vars

PInit == PStartState /\ FsIdle /\ WcIdle /\ GIdle /\ RIdle
SpecFeat == PInit /\ [][PNext]_vars

SpecRec == UInit /\ [][URecNext]_vars

-----------------------------------------------------------------------------
(* Claims about write_conf *)

WcTarget == Join(WcDir, wc.file)

\* C1: when the stage verifier selected by the file name rejects the
\* generated content, write_conf returns False and the target file is exactly
\* as it was before the call (still absent, or still its old content).
C1_RejectLeavesTarget ==
    (wc.called /\ HasVerifier(wc.file) /\ ~wc.accept)
        => /\ wc.ret = FALSE
           /\ Entry(fs, WcTarget) = Entry(wc.pre, WcTarget)

\* a rejected call on a target that held content written by an earlier call
C1_Witness ==
    /\ wc.called /\ HasVerifier(wc.file) /\ ~wc.accept
    /\ wc.conf_map # <<>>
    /\ IsFile(wc.pre, WcTarget)
    /\ wc.pre.files[WcTarget] # ConfLines(wc.conf_map)

\* the text of the lines the claim describes, in the map's key order
RECURSIVE ExpectedLines(_, _)
ExpectedLines(conf_map, i) ==
    IF i > Len(conf_map) THEN <<>>
    ELSE IF conf_map[i].value # <<>>
         THEN <<conf_map[i].key \o <<" ", "=", " ">> \o conf_map[i].value>>
                  \o ExpectedLines(conf_map, i + 1)
         ELSE ExpectedLines(conf_map, i + 1)

\* C2: when verification accepts, write_conf returns True and the target file
\* consists of exactly one line 'key = value' per key with a non-empty value,
\* in key order, with nothing for empty values and nothing left over.
C2_AcceptContent ==
    (wc.called /\ (HasVerifier(wc.file) => wc.accept))
        => /\ wc.ret = TRUE
           /\ IsFile(fs, WcTarget)
           /\ fs.files[WcTarget] = ExpectedLines(wc.conf_map, 1)

\* an accepted call with an empty value in the map, over an older version of
\* the file and with a stale temp file present
C2_Witness ==
    /\ wc.called /\ HasVerifier(wc.file) /\ wc.accept
    /\ \E i \in 1..Len(wc.conf_map) : wc.conf_map[i].value = <<>>
    /\ \E i \in 1..Len(wc.conf_map) : wc.conf_map[i].value # <<>>
    /\ IsFile(wc.pre, WcTarget)
    /\ wc.pre.files[WcTarget] # fs.files[WcTarget]


-----------------------------------------------------------------------------
(* Claims about get_config_maps *)

GReturned == g_pc = "done"
GRequested(c) == \E k \in 1..Len(g_in.configs) : g_in.configs[k] = c
GMainExisted == S_config \in DOMAIN g_in.disk0
GConvertRan == \E i \in 1..Len(g_log) : g_log[i].ev = "convert"
GStageReads == { i \in 1..Len(g_log) :
                    g_log[i].ev = "read" /\ g_log[i].file # S_config }
\* the alternate reconstruction configuration of the call's rec_id
GAltRec == S_config_rec \o <<"_">> \o g_in.rec_id

\* C3: when the main config file does not exist the call returns
\* 'no main config', an empty maps dictionary and None, and neither the
\* converter has run nor any configuration file has been read.
C3_NoMainConfig ==
    (~GMainExisted /\ g_pc # "start")
        => /\ GReturned
           /\ g_ret.msg = "no main config"
           /\ DOMAIN g_ret.maps = {}
           /\ g_ret.converted = "None"
           /\ g_log = <<>>
           /\ g_disk = g_in.disk0

\* the call returned for a directory that has stage files but no main config
C3_Witness ==
    /\ GReturned /\ ~GMainExisted
    /\ g_in.configs # <<>>
    /\ \A k \in 1..Len(g_in.configs) : g_in.configs[k] \in DOMAIN g_disk

\* the stored converter_ver is absent or lower than the current version
GStale ==
    /\ GMainExisted
    /\ \/ g_in.main0.ver = AbsentVer
       \/ g_in.cur # NoneVer /\ g_in.main0.ver < g_in.cur

\* C4: when the main config exists and its converter_ver is absent or lower
\* than the current version, any return that hands maps to the caller comes
\* after conv.convert has run and the main config has been read again, and
\* the main map returned is the converted one.
C4_ConvertBeforeMaps ==
    (GReturned /\ GStale /\ DOMAIN g_ret.maps # {})
        => /\ \E i \in 1..(Len(g_log) - 1) :
                 /\ g_log[i].ev = "convert"
                 /\ g_log[i + 1].ev = "read" /\ g_log[i + 1].file = S_config
                 /\ \A j \in GStageReads : j > i
           /\ g_ret.maps[S_config].gen = 1
           /\ g_ret.maps[S_config] = g_disk[S_config]

\* a successful return with a stage map, from a main config of a lower version
C4_Witness ==
    /\ GReturned /\ GStale /\ g_ret.msg = ""
    /\ g_in.main0.ver # AbsentVer
    /\ DOMAIN g_ret.maps # {S_config}

\* C5: on a successful return the third value is True exactly when the
\* converter ran in the call; when converter_ver is at least a non-None
\* current version the converter does not run and the value is False.
C5_ConvertedFlag ==
    GReturned
        => /\ g_ret.msg = "" => g_ret.converted = PyBool(GConvertRan)
           /\ (/\ GMainExisted
               /\ g_in.main0.ver # AbsentVer
               /\ g_in.cur # NoneVer
               /\ g_in.main0.ver >= g_in.cur)
                 => /\ ~GConvertRan
                    /\ g_disk = g_in.disk0
                    /\ g_ret.msg = "" => g_ret.converted = "False"

\* a successful return for a main config that is exactly at the current version
C5_Witness ==
    /\ GReturned /\ g_ret.msg = ""
    /\ g_in.cur # NoneVer /\ g_in.main0.ver = g_in.cur
    /\ g_ret.converted = "False"
    /\ DOMAIN g_ret.maps # {S_config}

\* the file a requested config is read from
GFileOf(c) == IF g_in.rec_id # None /\ c = S_config_rec THEN GAltRec ELSE c

\* C6: with no_verify true a verification failure never makes the call return
\* an error: the only error returns are the missing main config and the
\* missing beamline when config_instr is requested, and a successful return
\* includes the map of every requested file, failed or not.
C6_NoVerify ==
    (GReturned /\ g_in.no_verify)
        => /\ g_ret.msg \in {"", "no main config",
                             "cannot import beamlines.None module."}
           /\ g_ret.msg = "no main config" => ~GMainExisted
           /\ g_ret.msg = "cannot import beamlines.None module."
                 => GRequested(S_config_instr) /\ g_main.beamline = None
           /\ g_ret.msg = ""
                 => /\ g_ret.maps[S_config] = g_disk[S_config]
                    /\ \A k \in 1..Len(g_in.configs) :
                          LET c == g_in.configs[k]
                          IN  GFileOf(c) \in DOMAIN g_disk
                                 => /\ c \in DOMAIN g_ret.maps
                                    /\ g_ret.maps[c] = g_disk[GFileOf(c)]

\* a successful return whose main map and a stage map both failed verification
C6_Witness ==
    /\ GReturned /\ g_in.no_verify /\ g_ret.msg = ""
    /\ ~g_ret.maps[S_config].ok
    /\ \E c \in DOMAIN g_ret.maps : c # S_config /\ ~g_ret.maps[c].ok

\* C7: with a rec_id, config_rec is read from the alternate file of that
\* rec_id and returned under 'config_rec'; the other configs come from their
\* usual files; a missing alternate file leaves 'config_rec' out of the maps,
\* without falling back to conf/config_rec and without an error.
C7_RecId ==
    (GReturned /\ g_in.rec_id # None)
        => /\ \A i \in 1..Len(g_log) :
                 g_log[i].ev = "read" => g_log[i].file # S_config_rec
           /\ g_ret.msg = ""
                 => \A k \in 1..Len(g_in.configs) :
                       LET c == g_in.configs[k]
                       IN  IF c = S_config_rec
                           THEN /\ c \in DOMAIN g_ret.maps <=> GAltRec \in DOMAIN g_disk
                                /\ c \in DOMAIN g_ret.maps
                                      => g_ret.maps[c].src = GAltRec
                           ELSE /\ c \in DOMAIN g_ret.maps <=> c \in DOMAIN g_disk
                                /\ c \in DOMAIN g_ret.maps => g_ret.maps[c].src = c
           /\ (g_ret.msg # "" /\ GMainExisted)
                 => \/ g_ret.msg = "cannot import beamlines.None module."
                    \/ \E i \in 1..Len(g_log) :
                          g_log[i].ev = "verify" /\ ~g_log[i].ok

\* a successful return where the alternate file is missing while conf/config_rec
\* exists, and another requested config was read
C7_Witness ==
    /\ GReturned /\ g_in.rec_id # None /\ g_ret.msg = ""
    /\ GRequested(S_config_rec)
    /\ GAltRec \notin DOMAIN g_disk
    /\ S_config_rec \in DOMAIN g_disk
    /\ S_config_data \in DOMAIN g_ret.maps

-----------------------------------------------------------------------------
(* Claims about everything.run_all *)

RStageOrder ==
    <<"prep.handle_prep", "dt.format_data", "rec.manage_reconstruction",
      "dsp.handle_visualization">>

RCallsOf(st) == { i \in 1..Len(r_log) : r_log[i].ev = "call" /\ r_log[i].stage = st }

\* the experiment directory with every os.sep turned into '/'
RECURSIVE RNormalised(_, _)
RNormalised(d, i) ==
    IF i > Len(d) THEN <<>>
    ELSE <<IF d[i] = r_in.sep THEN "/" ELSE d[i]>> \o RNormalised(d, i + 1)

\* C8: run_all calls preparation, data formatting, reconstruction and
\* visualization once each in that order, each only after the previous one
\* returned, all with the same experiment directory (os.sep replaced by '/')
\* and the same rec_id / no_verify / debug; after a raise no stage is started.
C8_RunAllOrder ==
    /\ \A k \in 1..4 : Cardinality(RCallsOf(RStageOrder[k])) <= 1
    /\ \A i \in 1..Len(r_log) :
          /\ r_log[i].dir = RNormalised(r_in.experiment_dir, 1)
          /\ r_log[i].rec_id = r_in.rec_id
          /\ r_log[i].no_verify = r_in.no_verify
          /\ r_log[i].debug = r_in.debug
          /\ r_log[i].ev = "call"
                => IF i = 1 THEN r_log[i].stage = RStageOrder[1]
                   ELSE /\ r_log[i - 1].ev = "return"
                        /\ \E k \in 1..3 : /\ r_log[i - 1].stage = RStageOrder[k]
                                           /\ r_log[i].stage = RStageOrder[k + 1]
          /\ r_log[i].ev = "raise" => i = Len(r_log)
    /\ r_pc = "done"
          => \A k \in 1..4 : Cardinality(RCallsOf(RStageOrder[k])) = 1
    /\ r_pc = "raised"
          => /\ r_log # <<>>
             /\ r_log[Len(r_log)].ev = "raise"

\* run_all completed for a directory written with a separator other than '/'
C8_Witness ==
    /\ r_pc = "done"
    /\ r_in.sep = "\\"
    /\ \E i \in 1..Len(r_in.experiment_dir) : r_in.experiment_dir[i] = "\\"
    /\ r_in.rec_id # None
    /\ Len(r_log) = 8

-----------------------------------------------------------------------------
(* Claims about cdi_gui.set_experiment *)

Blank(s) == \A i \in 1..Len(s) : s[i] = " "

\* id is text without the blanks around it
IsStripped(id, text) ==
    \E i, j \in 0..Len(text) :
        /\ i + j <= Len(text)
        /\ id = SubSeq(text, i + 1, Len(text) - j)
        /\ Blank(SubSeq(text, 1, i))
        /\ Blank(SubSeq(text, Len(text) - j + 1, Len(text)))
        /\ id # <<>> => id[1] # " " /\ id[Len(id)] # " "

\* the working-directory field names an existing writable directory and the
\* stripped experiment id is not empty
C9_Accepting ==
    /\ u_w.wd # <<>>
    /\ u_w.wd \in fs.dirs
    /\ u_w.wd \notin ReadOnlyDirs
    /\ ~Blank(u_w.id)

\* C9: set_experiment on an existing writable working directory and a
\* non-empty stripped id makes exp_id the id followed by '_' and the scan when
\* the scan field is non-empty and the id alone otherwise, makes experiment_dir
\* working_dir/exp_id, and leaves experiment_dir and its conf directory
\* existing.
C9_SetExperiment ==
    [][(u_last'.op = "set_experiment" /\ C9_Accepting)
          => /\ u_last'.result # "rejected"
             /\ IsStripped(u_f'.id, u_w.id)
             /\ u_f'.exp_id = IF u_w.scan # <<>>
                              THEN u_f'.id \o <<"_">> \o u_w.scan
                              ELSE u_f'.id
             /\ u_f'.working_dir = u_w.wd
             /\ u_f'.experiment_dir = Append(u_w.wd, u_f'.exp_id)
             /\ u_f'.experiment_dir \in fs'.dirs
             /\ Append(u_f'.experiment_dir, <<"c","o","n","f">>) \in fs'.dirs
      ]_vars

\* set_experiment returned for an id typed with blanks around it and a scan
C9_Witness ==
    /\ u_last.op = "set_experiment" /\ u_last.result = "returned"
    /\ u_f.scan # None
    /\ u_f.id # u_w.id
    /\ Join(u_f.experiment_dir, S_conf) \in fs.dirs

\* the working-directory field is empty, names no directory or a directory
\* that is not writable, or the experiment id is empty
C10_Rejecting ==
    \/ u_w.wd = <<>>
    \/ u_w.wd \notin fs.dirs
    \/ u_w.wd \in ReadOnlyDirs
    \/ Blank(u_w.id)

\* C10: a set_experiment that rejects its input leaves working_dir, id, scan,
\* exp_id, experiment_dir, beamline and specfile unchanged, creates no
\* directory and writes no configuration file.
C10_RejectionFrame ==
    [][(u_last'.op = "set_experiment" /\ C10_Rejecting)
          => /\ u_last'.result = "rejected"
             /\ u_f' = u_f
             /\ fs' = fs
      ]_vars

\* set_experiment rejected a working directory that is not writable, after an
\* experiment had been set
C10_Witness ==
    /\ u_last.op = "set_experiment" /\ u_last.result = "rejected"
    /\ u_last.msgs = <<"not writable">>
    /\ u_f.exp_id # None
    /\ u_f.experiment_dir \in fs.dirs

-----------------------------------------------------------------------------
(* Claims about the run buttons of the GUI *)

RunOps == {"run_everything", "run_tab"}

\* the id and the scan held in the class are those entered in the window
SameAsEntered ==
    /\ u_f.id = Strip(u_w.id)
    /\ IF u_w.scan = <<>> THEN u_f.scan = None ELSE u_f.scan = u_w.scan

\* a call of is_exp_set of the last run returned True
IsExpSetReturnedTrue ==
    \/ u_run.checks = "passed"
    \/ \E i \in 1..Len(u_run.log) : u_run.log[i].set = "true"

\* C11: is_exp_set returns True only if the experiment id and the scan held
\* in the class are the same as those entered in the window; after a change of
\* the id field or of the scan field without 'set experiment' it returns
\* False.
C11_IsExpSetMeansSame ==
    (u_last.op \in RunOps /\ IsExpSetReturnedTrue) => SameAsEntered

\* the entry of the run_tab that is launching its stage script
Launching == u_run.log[Len(u_run.log)]

\* C12: whenever DataTab.run_tab or RecTab.run_tab is about to call
\* format_data or manage_reconstruction, is_exp_exists and is_exp_set both
\* returned True in that run_tab (and in run_everything when it started the
\* run), and both hold of the window at the call.
C12_LaunchGuarded ==
    (u_pc = "run" /\ u_run.launching \in {"data", "rec"})
        => /\ Launching.tab = u_run.launching
           /\ Launching.exists = "true"
           /\ Launching.set = "true"
           /\ u_run.op = "run_everything" => u_run.checks = "passed"
           /\ IsExpExists(u_w, u_f, fs)
           /\ IsExpSet(u_w, u_f)

\* run everything is about to call manage_reconstruction
C12_Witness ==
    /\ u_pc = "run"
    /\ u_run.op = "run_everything"
    /\ u_run.launching = "rec"
    /\ Launching.set = "true"

\* the configuration file a tab's run_tab writes
StageConfFile(tab) ==
    Join(Join(u_f.experiment_dir, S_conf),
         IF tab = "data" THEN S_config_data
         ELSE RecConfFile(u_conf.old_conf_id))

\* the parameters the window of a tab shows
WindowConfig(tab) ==
    IF tab = "data" THEN GetDataConfig(u_data) ELSE GetRecConfig(u_rec)

RECURSIVE TabsOf(_)
TabsOf(log) == IF log = <<>> THEN <<>> ELSE <<Head(log).tab>> \o TabsOf(Tail(log))

\* run everything has passed its tests and run_all has returned
RunAllDone ==
    /\ u_last.op = "run_everything"
    /\ u_pc = "idle"
    /\ u_run.checks = "passed"
    /\ u_t # NoTabs

\* C20: run_all calls run_tab of every tab once, in the order of the tabs, and
\* the script of a later stage is launched only if the script of every
\* earlier stage was launched in that run.
C20_RunAllChain ==
    RunAllDone
        => /\ TabsOf(u_run.log) = u_t
           /\ \A i, j \in 1..Len(u_run.log) :
                 (i < j /\ u_run.log[j].launched) => u_run.log[i].launched

-----------------------------------------------------------------------------
(* Claims about the feature panels *)

\* the keys of a feature
KeysOf(id) == {FeatureKeys(id)[k] : k \in 1..Len(FeatureKeys(id))}

\* the keys get_rec_config assigns before it turns to the features
BaseKeys == {S_reconstructions, S_device}

\* what a feature contributes to a mapping: its entries, in their order
RECURSIVE Contribution(_, _)
Contribution(id, conf_map) ==
    IF conf_map = <<>> THEN <<>>
    ELSE (IF Head(conf_map).key \in KeysOf(id) THEN <<Head(conf_map)>>
          ELSE <<>>) \o Contribution(id, Tail(conf_map))

\* the mapping get_rec_config returns holds keys of checked features only, and
\* no key belongs to two features or to a feature and the tab itself
OnlyActiveKeys ==
    LET conf_map == GetRecConfigFeat(u_rec, p_feat)
    IN  /\ \A i \in 1..Len(conf_map) : \A id \in FeatureSet :
             conf_map[i].key \in KeysOf(id) => p_feat[id].active
        /\ \A id \in FeatureSet :
             /\ KeysOf(id) \cap BaseKeys = {}
             /\ \A other \in FeatureSet \ {id} :
                  KeysOf(id) \cap KeysOf(other) = {}

\* C14: the mapping of get_rec_config contains a key of a feature only if the
\* feature's active box is checked, the key sets of two features never
\* overlap, and checking or unchecking the box of one feature changes neither
\* the keys nor the values another feature contributes.
C14_FeaturePanels ==
    /\ OnlyActiveKeys
    /\ \A id \in FeatureSet :
         p_feat[id].active # p_prev[id].active
            => \A other \in FeatureSet \ {id} :
                 Contribution(other, GetRecConfigFeat(u_rec, p_feat))
                    = Contribution(other, GetRecConfigFeat(u_rec, p_prev))

\* a feature with a parameter typed in contributes to the mapping when the
\* box of another feature has just been checked
C14_Witness ==
    \E id \in FeatureSet :
       /\ p_feat[id].active
       /\ \E k \in 1..Len(FeatureKeys(id)) : p_feat[id].texts[k] # <<>>
       /\ \E i \in 1..Len(GetRecConfigFeat(u_rec, p_feat)) :
            /\ GetRecConfigFeat(u_rec, p_feat)[i].key \in KeysOf(id)
            /\ GetRecConfigFeat(u_rec, p_feat)[i].value # <<>>
       /\ \E other \in FeatureSet \ {id} :
            p_feat[other].active /\ ~p_prev[other].active

-----------------------------------------------------------------------------
(* Claims about the reconstruction configurations *)

\* toggle_conf has run to its end, by a new choice in the combo box or at the
\* end of add_rec_conf
Toggled ==
    /\ u_last.op \in {"toggle_conf", "add_rec_conf"}
    /\ u_last.result = "returned"
    /\ u_conf.last_toggle # NoToggle
    /\ u_conf.last_toggle.to = RecConfFile(IF u_conf.items[u_conf.current] = S_main
                                           THEN <<>>
                                           ELSE u_conf.items[u_conf.current])

ToggleDir == Join(u_f.experiment_dir, S_conf)

\* C15: after toggle_conf the file of the previously selected configuration
\* holds the parameters the window showed, the window shows the parameters of
\* the newly selected configuration, and the file of the newly selected
\* configuration is as it was before the toggle.
C15_ToggleConf ==
    Toggled
       => LET t == u_conf.last_toggle
          IN  /\ Entry(fs, Join(ToggleDir, t.from)) = <<ExpectedLines(t.shown, 1)>>
              /\ Entry(fs, Join(ToggleDir, t.to))
                    = <<ExpectedLines(GetRecConfig(u_rec), 1)>>
              /\ Entry(fs, Join(ToggleDir, t.to)) = t.to_before

-----------------------------------------------------------------------------
(* Claims about the conversion of the stage configurations on load *)

\* the paths whose state a step changes
ChangedPaths ==
    {p \in DOMAIN fs.files \cup DOMAIN fs'.files : Entry(fs, p) # Entry(fs', p)}

\* p is a file of the directory dir
InDir(p, dir) == Len(p) = Len(dir) + 1 /\ SubSeq(p, 1, Len(dir)) = dir

\* C16: when the tabs are loaded with need_convert true, every file the load
\* writes is in the conf directory of the experiment that is set, and nothing
\* is written when no experiment is set; a file of the directory loaded from
\* changes only if that directory is the experiment's.
C16_ConversionTarget ==
    [][(u_pc = "load_tabs" /\ u_load.need_convert)
          => \A p \in ChangedPaths :
                /\ u_f.experiment_dir # NoPath
                /\ InDir(p, Join(u_f.experiment_dir, S_conf))]_vars

-----------------------------------------------------------------------------
(* Claims about the 'load data configuration' button *)

\* C17: load_data_conf completes without raising; when the dialog is
\* cancelled the widgets of the Data tab are unchanged and only the message is
\* shown, otherwise the widgets show the parameters of the selected file.
C17_LoadDataConf ==
    [][u_last'.op = "load_data_conf"
          => /\ u_last'.result = "returned"
             /\ IF u_last'.msgs = <<S_select_data_file>>
                THEN u_data' = u_data
                ELSE \E data_file \in DataConfFiles :
                       u_data' = DataShow(u_data,
                                          UtReadConfig(fs.files[data_file]))]_vars

-----------------------------------------------------------------------------
(* Claims about the schema version of the main configuration *)

\* the main configuration files the GUI has written: the conf/config files
\* that are not as they were when the GUI started
WrittenMainConfigs ==
    {p \in DOMAIN fs.files :
        /\ p[Len(p)] = S_config
        /\ Entry(fs, p) # Entry(UFs, p)}

\* the version a main configuration file holds is the converter's
AtCurrentVersion(lines) ==
    /\ Parsable(lines)
    /\ HasKey(UtReadConfig(lines), S_converter_ver)
    /\ Literal(UtReadConfig(lines), S_converter_ver) = ConvVersionStr

\* C18: every conf/config file written by save_main, after any sequence of
\* set_experiment, load_experiment and set_spec_file, holds converter_ver
\* equal to the converter's current version; this includes the file of an
\* experiment that was loaded from an older version.
C18_CurrentVersion ==
    \A p \in WrittenMainConfigs : AtCurrentVersion(fs.files[p])

\* load_experiment of the older-version experiment /w/o has returned and its
\* conf/config, which held version 1, has been written
C18_Witness ==
    /\ u_last.op = "load_experiment"
    /\ u_last.result = "returned"
    /\ u_f.experiment_dir = OldDir
    /\ Join(Join(OldDir, S_conf), S_config) \in WrittenMainConfigs
    /\ ~AtCurrentVersion(UFs.files[Join(Join(OldDir, S_conf), S_config)])

-----------------------------------------------------------------------------
(* Claims about the verification of the maps get_config_maps returns *)

\* the map returned under key was read from its file and then handed to its
\* verifier, which passed it, and the file was not read again afterwards
VerifiedInCall(key) ==
    LET file == IF key = S_config THEN S_config
                ELSE ConfFileName(key, g_in.rec_id)
    IN  \E k \in 1..Len(g_log) :
           /\ g_log[k] = Event("verify", file, TRUE)
           /\ \A m \in (k + 1)..Len(g_log) : g_log[m] # Event("read", file, TRUE)

\* C19: with no_verify false, when get_config_maps returns an empty message,
\* every map of the returned dictionary, maps['config'] included, passed its
\* verifier in that call.
C19_ReturnedMapsVerified ==
    (g_pc = "done" /\ ~g_in.no_verify /\ g_ret.msg = "")
       => \A key \in DOMAIN g_ret.maps :
             /\ g_ret.maps[key].ok
             /\ VerifiedInCall(key)

====
